---- MODULE Spec2Model ----
(***************************************************************************)
(* Model of the Nazario census (src/src/nazario_census.py): the text       *)
(* helpers, the year resolver, the signature builder and the census loop   *)
(* of main(); and of the cue detection (src/src/cues.py) with the          *)
(* detect_with_extras of the scanners (src/src/nazario.py, images.py).     *)
(* Text is a sequence of one-character strings, so that the regular        *)
(* expressions of the source are modelled by what they match.              *)
(***************************************************************************)
EXTENDS Integers, Sequences, FiniteSets, TLC

(***************************************************************************)
(* Characters and Python string primitives                                 *)
(***************************************************************************)
LowerChars == <<"a","b","c","d","e","f","g","h","i","j","k","l","m",
                "n","o","p","q","r","s","t","u","v","w","x","y","z">>
UpperChars == <<"A","B","C","D","E","F","G","H","I","J","K","L","M",
                "N","O","P","Q","R","S","T","U","V","W","X","Y","Z">>
DigitChars == <<"0","1","2","3","4","5","6","7","8","9">>

LowerSet == {LowerChars[i] : i \in 1..26}
UpperSet == {UpperChars[i] : i \in 1..26}
DigitSet == {DigitChars[i] : i \in 1..10}

\* regex \s and str.strip(): the whitespace characters of the modelled alphabet
IsSpace(c) == c \in {" ", "\t", "\n", "\r"}
\* regex \d
IsDigit(c) == c \in DigitSet
\* regex \w
IsWord(c) == c \in LowerSet \cup UpperSet \cup DigitSet \cup {"_", "é"}
\* regex [a-z0-9]
IsLowerAlnum(c) == c \in LowerSet \cup DigitSet

\* the value None of a missing csv field
NoneVal == <<"None">>

\* Python truthiness of an optional string: None and "" are false
Truthy(s) == s # NoneVal /\ s # <<>>

LowerOf == [c \in UpperSet |-> LowerChars[CHOOSE i \in 1..26 : UpperChars[i] = c]]
DigitVal == [c \in DigitSet |-> (CHOOSE i \in 1..10 : DigitChars[i] = c) - 1]

\* str.lower()
str_lower(s) == [i \in 1..Len(s) |-> IF s[i] \in UpperSet THEN LowerOf[s[i]] ELSE s[i]]

\* str.strip()
str_strip(s) ==
  LET keep == {i \in 1..Len(s) : ~IsSpace(s[i])}
  IN IF keep = {} THEN <<>>
     ELSE LET lo == CHOOSE i \in keep : \A j \in keep : i <= j
              hi == CHOOSE i \in keep : \A j \in keep : j <= i
          IN SubSeq(s, lo, hi)

\* str.isdigit()
str_isdigit(s) == Len(s) > 0 /\ \A i \in 1..Len(s) : IsDigit(s[i])

\* int(y) of a digit string
str_int(s) ==
  LET val[n \in 0..Len(s)] == IF n = 0 THEN 0 ELSE 10 * val[n - 1] + DigitVal[s[n]]
  IN val[Len(s)]

\* Python's < on strings: lexicographic by character code (digits in order)
CharCode(c) == IF c \in DigitSet THEN 48 + DigitVal[c]
               ELSE IF c \in UpperSet THEN 64 + (CHOOSE i \in 1..26 : UpperChars[i] = c)
               ELSE IF c \in LowerSet THEN 96 + (CHOOSE i \in 1..26 : LowerChars[i] = c)
               ELSE 32
str_lt(a, b) ==
  LET n    == IF Len(a) < Len(b) THEN Len(a) ELSE Len(b)
      diff == {i \in 1..n : a[i] # b[i]}
  IN IF diff = {} THEN Len(a) < Len(b)
     ELSE LET i == CHOOSE k \in diff : \A j \in diff : k <= j
          IN CharCode(a[i]) < CharCode(b[i])

\* s[:n]
str_prefix(s, n) == SubSeq(s, 1, IF Len(s) < n THEN Len(s) ELSE n)

\* re.sub(r"\s+", " ", s): every maximal whitespace run becomes one space
sub_ws_runs(s) ==
  LET m == [i \in 1..Len(s) |->
              IF IsSpace(s[i])
              THEN (IF i > 1 /\ IsSpace(s[i-1]) THEN "" ELSE " ")
              ELSE s[i]]
  IN SelectSeq(m, LAMBDA c : c # "")

\* re.sub(r"[^a-z0-9]+", " ", s): every maximal run outside [a-z0-9] becomes one space
sub_non_alnum_runs(s) ==
  LET m == [i \in 1..Len(s) |->
              IF ~IsLowerAlnum(s[i])
              THEN (IF i > 1 /\ ~IsLowerAlnum(s[i-1]) THEN "" ELSE " ")
              ELSE s[i]]
  IN SelectSeq(m, LAMBDA c : c # "")

(***************************************************************************)
(* Year extraction and the audited year resolver                           *)
(***************************************************************************)
YEAR_MIN == 2005
YEAR_MAX == 2024

\* \b at the gap before position i (1-based) of s
WordBoundary(s, i) ==
  LET before == i > 1 /\ i - 1 <= Len(s) /\ IsWord(s[i-1])
      after  == i >= 1 /\ i <= Len(s) /\ IsWord(s[i])
  IN before # after

\* YEAR_RX = \b(19|20)\d{2}\b matches s[i..i+3]
YearRxAt(s, i) ==
  /\ i + 3 <= Len(s)
  /\ WordBoundary(s, i)
  /\ \/ (s[i] = "1" /\ s[i+1] = "9")
     \/ (s[i] = "2" /\ s[i+1] = "0")
  /\ IsDigit(s[i+2])
  /\ IsDigit(s[i+3])
  /\ WordBoundary(s, i + 4)

\* YEAR_RX.search(s): the leftmost match, <<>> when there is none
YEAR_RX_search(s) ==
  LET hits == {i \in 1..Len(s) : YearRxAt(s, i)}
  IN IF hits = {} THEN <<>>
     ELSE LET i == CHOOSE k \in hits : \A j \in hits : k <= j
          IN SubSeq(s, i, i + 3)

\* a year check that accepts any four digits, whatever the range
_valid_year_any_four_digits(y) ==
  Truthy(y) /\ str_isdigit(y) /\ Len(y) = 4

_valid_year(y) ==
  IF ~Truthy(y) \/ ~str_isdigit(y) \/ Len(y) # 4
  THEN FALSE
  ELSE YEAR_MIN <= str_int(y) /\ str_int(y) <= YEAR_MAX

extract_year_from_text(s) ==
  IF ~Truthy(s) THEN <<>>
  ELSE LET m == YEAR_RX_search(s)
       IN IF m = <<>> THEN <<>>
          ELSE IF _valid_year(m) THEN m ELSE <<>>

(***************************************************************************)
(* Rows: a csv.DictReader row is a function from column names to text      *)
(***************************************************************************)
LIKELY_SUBJECT_KEYS == <<"subject", "subj", "title", "headline">>
LIKELY_HTML_KEYS    == <<"sanitized_body", "body_html", "message_html", "content_html">>
LIKELY_BODY_KEYS    == <<"body_snippet", "body", "text", "message", "content", "payload",
                         "description", "body_text", "email", "data">>

safe_get(rw, key) ==
  IF key \in DOMAIN rw
  THEN (IF rw[key] = NoneVal THEN <<>> ELSE rw[key])
  ELSE <<>>

first_present(rw, keys) ==
  LET hits == {i \in 1..Len(keys) : str_strip(safe_get(rw, keys[i])) # <<>>}
  IN IF hits = {} THEN <<>>
     ELSE safe_get(rw, keys[CHOOSE i \in hits : \A j \in hits : i <= j])

\* the year_audit dict of main()
AuditKeys == {"date_valid", "fallback_file", "unknown", "date_out_of_range"}
AuditInc(audit, k) == [audit EXCEPT ![k] = @ + 1]

\* guess_year_with_audit with an out-of-range date counted and returned at once
guess_year_short_circuit(rw, filename, audit) ==
  LET raw_date == safe_get(rw, "date")
      y_date   == extract_year_from_text(raw_date)
      y_file   == extract_year_from_text(filename)
  IN IF _valid_year(y_date)
     THEN [ret |-> y_date, audit |-> AuditInc(audit, "date_valid")]
     ELSE IF Truthy(raw_date) /\ YEAR_RX_search(raw_date) # <<>>
     THEN [ret |-> <<>>, audit |-> AuditInc(audit, "date_out_of_range")]
     ELSE IF _valid_year(y_file)
     THEN [ret |-> y_file, audit |-> AuditInc(audit, "fallback_file")]
     ELSE [ret |-> <<>>, audit |-> AuditInc(audit, "unknown")]

\* guess_year_with_audit trying the file name before the date field
guess_year_file_first(rw, filename, audit) ==
  LET raw_date == safe_get(rw, "date")
      y_date   == extract_year_from_text(raw_date)
      y_file   == extract_year_from_text(filename)
  IN IF _valid_year(y_file)
     THEN [ret |-> y_file, audit |-> AuditInc(audit, "fallback_file")]
     ELSE IF _valid_year(y_date)
     THEN [ret |-> y_date, audit |-> AuditInc(audit, "date_valid")]
     ELSE [ret |-> <<>>, audit |-> AuditInc(audit, "unknown")]

\* guess_year_with_audit giving up on an out-of-range date without trying the file name
guess_year_range_stops(rw, filename, audit) ==
  LET raw_date == safe_get(rw, "date")
      y_date   == extract_year_from_text(raw_date)
      y_file   == extract_year_from_text(filename)
  IN IF _valid_year(y_date)
     THEN [ret |-> y_date, audit |-> AuditInc(audit, "date_valid")]
     ELSE IF Truthy(raw_date) /\ YEAR_RX_search(raw_date) # <<>>
     THEN [ret |-> <<>>,
           audit |-> AuditInc(AuditInc(audit, "date_out_of_range"), "unknown")]
     ELSE IF _valid_year(y_file)
     THEN [ret |-> y_file, audit |-> AuditInc(audit, "fallback_file")]
     ELSE [ret |-> <<>>, audit |-> AuditInc(audit, "unknown")]

\* guess_year_with_audit counting date_out_of_range for every date without a valid year
guess_year_missing_counts_out_of_range(rw, filename, audit) ==
  LET raw_date == safe_get(rw, "date")
      y_date   == extract_year_from_text(raw_date)
  IN IF _valid_year(y_date)
     THEN [ret |-> y_date, audit |-> AuditInc(audit, "date_valid")]
     ELSE LET a1 == AuditInc(audit, "date_out_of_range")
              y_file == extract_year_from_text(filename)
          IN IF _valid_year(y_file)
             THEN [ret |-> y_file, audit |-> AuditInc(a1, "fallback_file")]
             ELSE [ret |-> <<>>, audit |-> AuditInc(a1, "unknown")]

\* guess_year_with_audit counting date_out_of_range only when the file name gives no year
guess_year_out_of_range_only_when_unknown(rw, filename, audit) ==
  LET raw_date == safe_get(rw, "date")
      y_date   == extract_year_from_text(raw_date)
      y_file   == extract_year_from_text(filename)
  IN IF _valid_year(y_date)
     THEN [ret |-> y_date, audit |-> AuditInc(audit, "date_valid")]
     ELSE IF _valid_year(y_file)
     THEN [ret |-> y_file, audit |-> AuditInc(audit, "fallback_file")]
     ELSE IF Truthy(raw_date) /\ YEAR_RX_search(raw_date) # <<>>
     THEN [ret |-> <<>>,
           audit |-> AuditInc(AuditInc(audit, "date_out_of_range"), "unknown")]
     ELSE [ret |-> <<>>, audit |-> AuditInc(audit, "unknown")]

\* guess_year_with_audit: the returned year and the audit dict as it leaves it
guess_year_with_audit(rw, filename, audit) ==
  LET raw_date == safe_get(rw, "date")
      y_date   == extract_year_from_text(raw_date)
  IN IF _valid_year(y_date)
     THEN [ret |-> y_date, audit |-> AuditInc(audit, "date_valid")]
     ELSE LET a1 == IF /\ Truthy(raw_date)
                       /\ YEAR_RX_search(raw_date) # <<>>
                       /\ ~_valid_year(YEAR_RX_search(raw_date))
                    THEN AuditInc(audit, "date_out_of_range")
                    ELSE audit
              y_file == extract_year_from_text(filename)
          IN IF _valid_year(y_file)
             THEN [ret |-> y_file, audit |-> AuditInc(a1, "fallback_file")]
             ELSE [ret |-> <<>>, audit |-> AuditInc(a1, "unknown")]

\* is_email_like testing that a candidate field exists, not that it holds text
is_email_like_field_present(rw) ==
  \E i \in 1..Len(LIKELY_SUBJECT_KEYS \o LIKELY_HTML_KEYS \o LIKELY_BODY_KEYS) :
    (LIKELY_SUBJECT_KEYS \o LIKELY_HTML_KEYS \o LIKELY_BODY_KEYS)[i] \in DOMAIN rw

is_email_like(rw) ==
  LET subj     == first_present(rw, LIKELY_SUBJECT_KEYS)
      body_any == first_present(rw, LIKELY_HTML_KEYS \o LIKELY_BODY_KEYS)
  IN \/ (Truthy(subj) /\ Truthy(str_strip(subj)))
     \/ (Truthy(body_any) /\ Truthy(str_strip(body_any)))

(***************************************************************************)
(* HTML stripping, text and subject normalisation                          *)
(***************************************************************************)
CharLower(c) == IF c \in UpperSet THEN LowerOf[c] ELSE c

\* where a greedy \s* starting at position i stops (first non-space position, or Len+1)
SkipWs(s, i) ==
  LET stops == {j \in i..(Len(s) + 1) : j = Len(s) + 1 \/ ~IsSpace(s[j])}
  IN CHOOSE j \in stops : \A k \in stops : j <= k

\* the literal lit at position i of s, compared exactly / ignoring case
MatchExact(s, i, lit) ==
  /\ i >= 1
  /\ i + Len(lit) - 1 <= Len(s)
  /\ \A k \in 1..Len(lit) : s[i + k - 1] = lit[k]
MatchNoCase(s, i, lit) ==
  /\ i >= 1
  /\ i + Len(lit) - 1 <= Len(s)
  /\ \A k \in 1..Len(lit) : CharLower(s[i + k - 1]) = lit[k]

CharAt(s, i, c) == i >= 1 /\ i <= Len(s) /\ s[i] = c

LitScript == <<"s","c","r","i","p","t">>
LitStyle  == <<"s","t","y","l","e">>

\* group 1 of RE_SCRIPTS, (script|style), at position p; <<>> when neither matches
ScriptNameAt(s, p) ==
  IF MatchNoCase(s, p, LitScript) THEN LitScript
  ELSE IF MatchNoCase(s, p, LitStyle) THEN LitStyle
  ELSE <<>>

\* <\s*/\s*\1\s*> at position k: the index of its closing '>', 0 when it does not match
ScriptCloseEnd(s, k, name) ==
  IF ~CharAt(s, k, "<") THEN 0
  ELSE LET a == SkipWs(s, k + 1)
       IN IF ~CharAt(s, a, "/") THEN 0
          ELSE LET b == SkipWs(s, a + 1)
               IN IF ~MatchNoCase(s, b, name) THEN 0
                  ELSE LET c == SkipWs(s, b + Len(name))
                       IN IF CharAt(s, c, ">") THEN c ELSE 0

\* RE_SCRIPTS = <\s*(script|style)[^>]*>.*?<\s*/\s*\1\s*> (IGNORECASE, DOTALL)
\* matching at position i: the index of the last matched character, 0 when no match
ScriptMatchEnd(s, i) ==
  IF ~CharAt(s, i, "<") THEN 0
  ELSE LET p    == SkipWs(s, i + 1)
           name == ScriptNameAt(s, p)
       IN IF name = <<>> THEN 0
          ELSE LET gts == {j \in (p + Len(name))..Len(s) : s[j] = ">"}
               IN IF gts = {} THEN 0
                  ELSE LET q  == CHOOSE j \in gts : \A k \in gts : j <= k
                           ks == {k \in (q + 1)..Len(s) : ScriptCloseEnd(s, k, name) # 0}
                       IN IF ks = {} THEN 0
                          ELSE ScriptCloseEnd(s, CHOOSE k \in ks : \A m \in ks : k <= m, name)

\* RE_SCRIPTS.sub(" ", s): leftmost matches, left to right, each replaced by a space
RE_SCRIPTS_sub(s) ==
  LET rest[i \in 1..(Len(s) + 1)] ==
        IF i > Len(s) THEN <<>>
        ELSE LET e == ScriptMatchEnd(s, i)
             IN IF e # 0 THEN <<" ">> \o rest[e + 1]
                ELSE <<s[i]>> \o rest[i + 1]
  IN rest[1]

\* RE_TAGS = <[^>]+> matching at position i: index of the closing '>', 0 when no match
TagMatchEnd(s, i) ==
  IF ~CharAt(s, i, "<") THEN 0
  ELSE IF i + 1 > Len(s) \/ s[i + 1] = ">" THEN 0
  ELSE LET gts == {j \in (i + 2)..Len(s) : s[j] = ">"}
       IN IF gts = {} THEN 0
          ELSE CHOOSE j \in gts : \A k \in gts : j <= k

\* RE_TAGS.sub(" ", s): leftmost matches, left to right, each replaced by a space
RE_TAGS_sub(s) ==
  LET rest[i \in 1..(Len(s) + 1)] ==
        IF i > Len(s) THEN <<>>
        ELSE LET e == TagMatchEnd(s, i)
             IN IF e # 0 THEN <<" ">> \o rest[e + 1]
                ELSE <<s[i]>> \o rest[i + 1]
  IN rest[1]

html_to_text(html) ==
  IF ~Truthy(html) THEN <<>>
  ELSE LET h1 == RE_SCRIPTS_sub(html)
           h2 == RE_TAGS_sub(h1)
       IN str_strip(sub_ws_runs(h2))

\* normalize_text without the final strip
normalize_text_no_strip(s) ==
  LET s0 == str_lower(IF Truthy(s) THEN s ELSE <<>>)
      s1 == sub_non_alnum_runs(s0)
  IN sub_ws_runs(s1)

normalize_text(s) ==
  LET s0 == str_lower(IF Truthy(s) THEN s ELSE <<>>)
      s1 == sub_non_alnum_runs(s0)
  IN str_strip(sub_ws_runs(s1))

\* ^(re|fw|fwd)\s*:\s* at the start of s: how many characters it matches, 0 when none
SubjectMarkerLen(s) ==
  LET alts == << <<"r","e">>, <<"f","w">>, <<"f","w","d">> >>
      ok(a) == MatchExact(s, 1, a) /\ CharAt(s, SkipWs(s, Len(a) + 1), ":")
      hits == {n \in 1..3 : ok(alts[n])}
  IN IF hits = {} THEN 0
     ELSE LET a == alts[CHOOSE n \in hits : \A m \in hits : n <= m]
          IN SkipWs(s, SkipWs(s, Len(a) + 1) + 1) - 1

\* normalize_subject stripping the marker before lowercasing
normalize_subject_case_sensitive(subj) ==
  LET s0 == str_strip(IF Truthy(subj) THEN subj ELSE <<>>)
      s1 == str_lower(SubSeq(s0, SubjectMarkerLen(s0) + 1, Len(s0)))
  IN sub_ws_runs(s1)

\* normalize_subject stripping every leading marker, not only the first
normalize_subject_all_markers(subj) ==
  LET s0 == str_lower(str_strip(IF Truthy(subj) THEN subj ELSE <<>>))
      drop[k \in 0..Len(s0)] ==
        IF k = 0 THEN s0
        ELSE LET t == drop[k - 1] IN SubSeq(t, SubjectMarkerLen(t) + 1, Len(t))
  IN sub_ws_runs(drop[Len(s0)])

normalize_subject(subj) ==
  LET s0 == str_lower(str_strip(IF Truthy(subj) THEN subj ELSE <<>>))
      s1 == SubSeq(s0, SubjectMarkerLen(s0) + 1, Len(s0))
  IN sub_ws_runs(s1)

(***************************************************************************)
(* Signature builder                                                       *)
(***************************************************************************)
MIN_CONTENT_CHARS == 5

\* hashlib.sha1(...).hexdigest(): a non-empty digest string, one per input
\* (no collisions among the bounded inputs); the input is kept as its name
sha1_hexdigest(s) == <<"sha1:">> \o s

\* content selection that turns to the plain text when the HTML strips to nothing
SelectedContent_text_when_html_empty(rw) ==
  LET body_html == first_present(rw, LIKELY_HTML_KEYS)
      body_text == first_present(rw, LIKELY_BODY_KEYS)
  IN IF Truthy(str_strip(body_html)) /\ Truthy(html_to_text(body_html))
     THEN html_to_text(body_html)
     ELSE body_text

\* the content the signature hashes: HTML stripped when an HTML field is present
SelectedContent(rw) ==
  LET body_html == first_present(rw, LIKELY_HTML_KEYS)
      body_text == first_present(rw, LIKELY_BODY_KEYS)
  IN IF Truthy(str_strip(body_html)) THEN html_to_text(body_html) ELSE body_text

\* content component without the short-body sentinel
ContentSig_always_hash(cont_norm) == sha1_hexdigest(cont_norm)

\* content component with the threshold tested as <=
ContentSig_le(cont_norm) ==
  IF Len(cont_norm) <= MIN_CONTENT_CHARS THEN <<>> ELSE sha1_hexdigest(cont_norm)

ContentSig(cont_norm) ==
  IF Len(cont_norm) < MIN_CONTENT_CHARS THEN <<>> ELSE sha1_hexdigest(cont_norm)

\* build_signature hashing the date together with the content
build_signature_with_date(rw) ==
  LET subj        == first_present(rw, LIKELY_SUBJECT_KEYS)
      subj_norm   == normalize_subject(subj)
      from_domain == str_strip(str_lower(safe_get(rw, "from_domain")))
      cont_norm   == normalize_text(SelectedContent(rw) \o <<" ">> \o safe_get(rw, "date"))
  IN <<from_domain, subj_norm, ContentSig(cont_norm)>>

build_signature(rw) ==
  LET subj        == first_present(rw, LIKELY_SUBJECT_KEYS)
      subj_norm   == normalize_subject(subj)
      from_domain == str_strip(str_lower(safe_get(rw, "from_domain")))
      cont_norm   == normalize_text(SelectedContent(rw))
  IN <<from_domain, subj_norm, ContentSig(cont_norm)>>

(***************************************************************************)
(* The census loop of main()                                               *)
(***************************************************************************)
MAX_EXAMPLES_PER_SIG == 3

\* bounds of the explored corpus
MaxRows  == 4
MaxFiles == 1

VARIABLES
  pc,                   \* where main() is: "files", "rows", "done", "exit"
  stream,               \* the (row, file name) pairs read so far, in order
  path_name,            \* path.name of the file being read
  rows_in_file, email_like_in_file, seen_sigs_this_file, file_counts,
  total_rows_all, email_like_all,
  sig_counter, sig_examples, sig_first_year,
  per_year_raw, per_year_unique, year_audit,
  row, sig, yr,         \* locals of the row loop
  unique_emails, duplicates, dup_rate,
  base_row, base_sig,   \* the record a second record is compared with, and its signature
  edits,                \* how the record in row was derived from base_row
  text,                 \* the argument of a single call of a text function
  called,               \* the function that call went to
  result,               \* what the call returned
  raised,               \* the exception the call raised instead, "" when it returned
  top_dups,             \* the rows of duplicates_top.csv, in order
  header                \* reader.fieldnames of the csv file the scanner reads

vars == <<pc, stream, path_name, rows_in_file, email_like_in_file,
          seen_sigs_this_file, file_counts, total_rows_all, email_like_all,
          sig_counter, sig_examples, sig_first_year, per_year_raw,
          per_year_unique, year_audit, row, sig, yr,
          unique_emails, duplicates, dup_rate, base_row, base_sig, edits,
          text, called, result, raised, top_dups, header>>

\* the variables only the signature comparison uses
pairVars == <<base_row, base_sig, edits>>

\* the variables only a single call of a text function or the report writer uses
callVars == <<text, called, result, raised, top_dups, header>>

\* the aggregates of the census loop, untouched by a single resolver or builder call
aggVars == <<stream, rows_in_file, email_like_in_file, seen_sigs_this_file, file_counts,
             total_rows_all, email_like_all, sig_counter, sig_examples, sig_first_year,
             per_year_raw, per_year_unique, unique_emails, duplicates, dup_rate>>

\* text literals of the explored rows
T_Hi      == <<"H","i">>
T_hi      == <<"h","i">>
T_ReHi    == <<"R","e",":"," ","H","i">>
T_acom    == <<"a",".","c","o","m">>
T_Acom    == <<"A",".","c","o","m"," ">>
T_hello1  == <<"h","e","l","l","o"," ","y","o","u">>
T_hello2  == <<"H","e","l","l","o"," "," ","Y","o","u","!">>
T_helloH  == <<"<","p",">","h","e","l","l","o","<","/","p",">"," ","<","b",">","Y","O","U","<","/","b",">">>
T_ok      == <<"o","k">>
T_no      == <<"n","o","!">>
T_blank   == <<" "," ">>
D_2010    == <<"2","0","1","0">>
D_2007    == <<"1"," ","J","a","n"," ","2","0","0","7">>
D_1999    == <<"1","9","9","9">>
D_2024    == <<"2","0","2","4">>
F_2006    == <<"p","-","2","0","0","6",".","c","s","v">>
F_none    == <<"p",".","c","s","v">>

\* the rows a csv file of the explored corpus may hold
Rows == {
  [subject |-> T_ReHi, from_domain |-> T_Acom, date |-> D_2007, body |-> T_hello2],
  [title |-> T_Hi, from_domain |-> T_acom, date |-> D_1999, sanitized_body |-> T_helloH,
   body |-> T_ok],
  [subject |-> T_Hi, from_domain |-> T_acom, date |-> NoneVal, body_snippet |-> T_ok],
  [subject |-> T_hi, from_domain |-> T_acom, date |-> D_2024, body |-> T_no],
  [subject |-> T_blank, from_domain |-> T_acom, date |-> D_2010, body |-> T_blank]
}
\* a subject of 201 characters, the last one unlike the others
T_long201 == [i \in 1..201 |-> IF i = 201 THEN "z" ELSE IF i % 10 = 0 THEN " " ELSE "a"]

\* the rows of a corpus for the example lists: a record with a subject longer than
\* the cut and no date, and two records of one signature with different subjects
ExampleRows == {
  [subject |-> T_long201, from_domain |-> T_acom, date |-> NoneVal, body |-> T_hello1],
  [subject |-> T_ReHi, from_domain |-> T_acom, date |-> D_2010, body |-> T_hello1],
  [subject |-> T_Hi, from_domain |-> T_acom, date |-> D_1999, body |-> T_hello1]
}

FileNames == {F_2006, F_none}

EmptyMap == <<>>
ZeroAudit == [k \in AuditKeys |-> 0]

\* the accumulators as main() creates them (lines 210-231)
InitAggregates ==
  /\ stream = <<>>
  /\ rows_in_file = 0
  /\ email_like_in_file = 0
  /\ seen_sigs_this_file = {}
  /\ file_counts = <<>>
  /\ total_rows_all = 0
  /\ email_like_all = 0
  /\ sig_counter = EmptyMap
  /\ sig_examples = EmptyMap
  /\ sig_first_year = EmptyMap
  /\ per_year_raw = EmptyMap
  /\ per_year_unique = EmptyMap
  /\ unique_emails = 0
  /\ duplicates = 0
  /\ dup_rate = [num |-> 0, den |-> 1]

\* no text function has been called and no report written
InitCalls ==
  /\ text = <<>>
  /\ called = ""
  /\ result = <<>>
  /\ raised = ""
  /\ top_dups = <<>>
  /\ header = <<>>

Init ==
  /\ pc = "files"
  /\ InitCalls
  /\ path_name = <<>>
  /\ InitAggregates
  /\ year_audit = ZeroAudit
  /\ row = EmptyMap
  /\ sig = <<>>
  /\ yr = <<>>
  /\ base_row = EmptyMap
  /\ base_sig = <<>>
  /\ edits = <<>>

\* Counter increment that restarts an existing entry at 1
CounterInc_reset(counter, k) ==
  [x \in DOMAIN counter \cup {k} |-> IF x = k THEN 1 ELSE counter[x]]

\* Counter()[k] += 1
CounterInc(counter, k) ==
  IF k \in DOMAIN counter THEN [counter EXCEPT ![k] = @ + 1]
  ELSE [x \in DOMAIN counter \cup {k} |-> IF x = k THEN 1 ELSE counter[x]]

\* example retention with the cap tested as <=
AddExample_off_by_one(examples, s, fname, r) ==
  LET cur == IF s \in DOMAIN examples THEN examples[s] ELSE <<>>
      new == IF Len(cur) <= MAX_EXAMPLES_PER_SIG
             THEN Append(cur, <<fname, str_prefix(first_present(r, LIKELY_SUBJECT_KEYS), 200)>>)
             ELSE cur
  IN [x \in DOMAIN examples \cup {s} |-> IF x = s THEN new ELSE examples[x]]

\* example retention that drops the oldest example to make room for the newest
AddExample_keep_latest(examples, s, fname, r) ==
  LET cur == IF s \in DOMAIN examples THEN examples[s] ELSE <<>>
      ex  == <<fname, str_prefix(first_present(r, LIKELY_SUBJECT_KEYS), 200)>>
      new == IF Len(cur) < MAX_EXAMPLES_PER_SIG
             THEN Append(cur, ex)
             ELSE Append(SubSeq(cur, 2, Len(cur)), ex)
  IN [x \in DOMAIN examples \cup {s} |-> IF x = s THEN new ELSE examples[x]]

\* lines 257-259: keep at most MAX_EXAMPLES_PER_SIG examples per signature
AddExample(examples, s, fname, r) ==
  LET cur == IF s \in DOMAIN examples THEN examples[s] ELSE <<>>
      new == IF Len(cur) < MAX_EXAMPLES_PER_SIG
             THEN Append(cur, <<fname, str_prefix(first_present(r, LIKELY_SUBJECT_KEYS), 200)>>)
             ELSE cur
  IN [x \in DOMAIN examples \cup {s} |-> IF x = s THEN new ELSE examples[x]]

\* earliest-year update that keeps the first year seen
UpdateFirstYear_first_seen(first_year, s, y) ==
  IF s \notin DOMAIN first_year
  THEN [x \in DOMAIN first_year \cup {s} |-> IF x = s THEN y ELSE first_year[x]]
  ELSE first_year

\* earliest-year update that keeps the year of the latest row
UpdateFirstYear_last_seen(first_year, s, y) ==
  [x \in DOMAIN first_year \cup {s} |-> IF x = s THEN y ELSE first_year[x]]

\* lines 266-267: keep the earliest year seen for the signature
UpdateFirstYear(first_year, s, y) ==
  IF s \notin DOMAIN first_year \/ str_lt(y, first_year[s])
  THEN [x \in DOMAIN first_year \cup {s} |-> IF x = s THEN y ELSE first_year[x]]
  ELSE first_year

Max0(n) == IF n > 0 THEN n ELSE 0

\* duplicates with the operands exchanged
Duplicates_swapped(n_email_like, n_unique) == Max0(n_unique - n_email_like)

\* line 283
Duplicates(n_email_like, n_unique) == Max0(n_email_like - n_unique)

\* line 284: duplicates / email_like_all * 100.0 as an exact fraction, 0.0 when there are no rows
DupRate(dups, n_email_like) ==
  IF n_email_like # 0 THEN [num |-> dups * 100, den |-> n_email_like]
  ELSE [num |-> 0, den |-> 1]

\* per-year unique counts that count a signature in its earliest year and every later one
PerYearUnique_cumulative(first_year) ==
  LET years == {first_year[s] : s \in {t \in DOMAIN first_year : Truthy(first_year[t])}}
  IN [y \in years |->
        Cardinality({s \in DOMAIN first_year : str_int(first_year[s]) <= str_int(y)})]

\* lines 287-289: one unit per signature, at its earliest year
PerYearUnique(first_year) ==
  LET years == {first_year[s] : s \in {t \in DOMAIN first_year : Truthy(first_year[t])}}
  IN [y \in years |-> Cardinality({s \in DOMAIN first_year : first_year[s] = y})]

\* counter.get(k, 0)
CounterGet(counter, k) == IF k \in DOMAIN counter THEN counter[k] ELSE 0

\* sorted(...) of a set of year strings
SortedYears(S) ==
  LET srt[T \in SUBSET S] ==
        IF T = {} THEN <<>>
        ELSE LET m == CHOOSE x \in T : \A y \in T : x = y \/ str_lt(x, y)
             IN <<m>> \o srt[T \ {m}]
  IN srt[S]

\* lines 298-306: the rows of per_year_counts.csv, year, email_like_rows,
\* unique_emails, estimated_duplicates
PerYearCounts(raw, uniq) ==
  LET years_sorted == SortedYears(DOMAIN raw \cup DOMAIN uniq)
  IN [k \in 1..Len(years_sorted) |->
        LET y      == years_sorted[k]
            raw_y  == CounterGet(raw, y)
            uniq_y == CounterGet(uniq, y)
        IN <<y, raw_y, uniq_y, Max0(raw_y - uniq_y)>>]

\* line 234: the next csv file is opened and the per-file counters start at zero
OpenFile(f) ==
  /\ pc = "files"
  /\ Len(file_counts) < MaxFiles
  /\ pc' = "rows"
  /\ path_name' = f
  /\ rows_in_file' = 0
  /\ email_like_in_file' = 0
  /\ seen_sigs_this_file' = {}
  /\ UNCHANGED <<stream, file_counts, total_rows_all, email_like_all, sig_counter,
                 sig_examples, sig_first_year, per_year_raw, per_year_unique,
                 year_audit, row, sig, yr, unique_emails, duplicates, dup_rate>>
  /\ UNCHANGED pairVars
  /\ UNCHANGED callVars

\* lines 241-271: one row of the current file
ProcessRow(r) ==
  /\ pc = "rows"
  /\ total_rows_all < MaxRows
  /\ stream' = Append(stream, <<r, path_name>>)
  /\ row' = r
  /\ rows_in_file' = rows_in_file + 1
  /\ total_rows_all' = total_rows_all + 1
  /\ IF ~is_email_like(r)
     THEN UNCHANGED <<email_like_in_file, email_like_all, sig, sig_counter, sig_examples,
                      yr, year_audit, per_year_raw, sig_first_year, seen_sigs_this_file>>
     ELSE LET s == build_signature(r)
              g == guess_year_with_audit(r, path_name, year_audit)
          IN /\ email_like_in_file' = email_like_in_file + 1
             /\ email_like_all' = email_like_all + 1
             /\ sig' = s
             /\ sig_counter' = CounterInc(sig_counter, s)
             /\ sig_examples' = AddExample(sig_examples, s, path_name, r)
             /\ yr' = g.ret
             /\ year_audit' = g.audit
             /\ IF Truthy(g.ret)
                THEN /\ per_year_raw' = CounterInc(per_year_raw, g.ret)
                     /\ sig_first_year' = UpdateFirstYear(sig_first_year, s, g.ret)
                ELSE UNCHANGED <<per_year_raw, sig_first_year>>
             /\ seen_sigs_this_file' = seen_sigs_this_file \cup {s}
  /\ UNCHANGED <<pc, path_name, file_counts, per_year_unique,
                 unique_emails, duplicates, dup_rate>>
  /\ UNCHANGED pairVars
  /\ UNCHANGED callVars

\* lines 273-279: the file is exhausted and its summary recorded
CloseFile ==
  /\ pc = "rows"
  /\ pc' = "files"
  /\ file_counts' = Append(file_counts,
                           [file |-> path_name,
                            rows_total |-> rows_in_file,
                            email_like_rows |-> email_like_in_file,
                            unique_signatures_in_file |-> Cardinality(seen_sigs_this_file)])
  /\ UNCHANGED <<stream, path_name, rows_in_file, email_like_in_file, seen_sigs_this_file,
                 total_rows_all, email_like_all, sig_counter, sig_examples,
                 sig_first_year, per_year_raw, per_year_unique, year_audit, row, sig, yr,
                 unique_emails, duplicates, dup_rate>>
  /\ UNCHANGED pairVars
  /\ UNCHANGED callVars

\* lines 205-207: no csv file at all, main() returns before any total is computed
ReturnNoFiles ==
  /\ pc = "files"
  /\ file_counts = <<>>
  /\ pc' = "exit"
  /\ UNCHANGED <<stream, path_name, rows_in_file, email_like_in_file, seen_sigs_this_file,
                 file_counts, total_rows_all, email_like_all, sig_counter, sig_examples,
                 sig_first_year, per_year_raw, per_year_unique, year_audit, row, sig, yr,
                 unique_emails, duplicates, dup_rate>>
  /\ UNCHANGED pairVars
  /\ UNCHANGED callVars

\* lines 281-289: the file list is exhausted and the global totals are computed
Finalize ==
  /\ pc = "files"
  /\ file_counts # <<>>
  /\ pc' = "done"
  /\ unique_emails' = Cardinality(DOMAIN sig_counter)
  /\ duplicates' = Duplicates(email_like_all, Cardinality(DOMAIN sig_counter))
  /\ dup_rate' = DupRate(Duplicates(email_like_all, Cardinality(DOMAIN sig_counter)),
                         email_like_all)
  /\ per_year_unique' = PerYearUnique(sig_first_year)
  /\ UNCHANGED <<stream, path_name, rows_in_file, email_like_in_file, seen_sigs_this_file,
                 file_counts, total_rows_all, email_like_all, sig_counter, sig_examples,
                 sig_first_year, per_year_raw, year_audit, row, sig, yr>>
  /\ UNCHANGED pairVars
  /\ UNCHANGED callVars

Next ==
  \/ \E f \in FileNames : OpenFile(f)
  \/ \E r \in Rows : ProcessRow(r)
  \/ CloseFile
  \/ ReturnNoFiles
  \/ Finalize

Spec == Init /\ [][Next]_vars

(***************************************************************************)
(* What the stream read so far says, independently of the accumulators     *)
(***************************************************************************)
\* (each table is a set of pairs, so that it is computed once)
SigPairs      == {<<r, build_signature(r)>> : r \in Rows \cup ExampleRows}
EmailPairs    == {<<r, is_email_like(r)>> : r \in Rows \cup ExampleRows}
YearPairs     == {<<r, f, guess_year_with_audit(r, f, ZeroAudit).ret>> :
                    r \in Rows \cup ExampleRows, f \in FileNames}
ContNormPairs == {<<r, normalize_text(SelectedContent(r))>> : r \in Rows}
SubjNormPairs == {<<r, normalize_subject(first_present(r, LIKELY_SUBJECT_KEYS))>> :
                    r \in Rows}
DomainPairs   == {<<r, str_strip(str_lower(safe_get(r, "from_domain")))>> : r \in Rows}

Lookup(pairs, r) == (CHOOSE p \in pairs : p[1] = r)[2]
SigOf(r)      == Lookup(SigPairs, r)
EmailLikeOf(r) == Lookup(EmailPairs, r)
YearOf(r, f)  == (CHOOSE p \in YearPairs : p[1] = r /\ p[2] = f)[3]
ContNormOf(r) == Lookup(ContNormPairs, r)
SubjNormOf(r) == Lookup(SubjNormPairs, r)
DomainOf(r)   == Lookup(DomainPairs, r)

EmailIdx     == {i \in 1..Len(stream) : EmailLikeOf(stream[i][1])}
StreamSig(i) == SigOf(stream[i][1])
StreamYear(i) == YearOf(stream[i][1], stream[i][2])
StreamSigs   == {StreamSig(i) : i \in EmailIdx}
Occurrences(s) == Cardinality({i \in EmailIdx : StreamSig(i) = s})
Min(a, b) == IF a < b THEN a ELSE b

SumOver(f, keys) ==
  LET acc[ks \in SUBSET keys] ==
        IF ks = {} THEN 0
        ELSE LET k == CHOOSE x \in ks : TRUE IN f[k] + acc[ks \ {k}]
  IN acc[keys]

\* C1: at the end of the census, duplicates is exactly N - U (N email-like rows,
\* U distinct signatures, so the clamp at 0 is never active) and the duplicate
\* rate is (N - U) / N * 100, and 0 with no division when N = 0.
C1_DuplicateAccounting ==
  pc = "done" =>
    LET N == Cardinality(EmailIdx)
        U == Cardinality(StreamSigs)
    IN /\ U <= N
       /\ email_like_all - unique_emails >= 0
       /\ duplicates = N - U
       /\ dup_rate.den # 0
       /\ N = 0 => dup_rate.num = 0
       /\ N > 0 => dup_rate.num * N = (N - U) * 100 * dup_rate.den

C1_Witness ==
  /\ pc = "done"
  /\ email_like_all = 3
  /\ unique_emails = 2
  /\ duplicates = 1
  /\ dup_rate = [num |-> 100, den |-> 3]

\* C2: every email-like row increments exactly one of date_valid, fallback_file,
\* unknown (and possibly date_out_of_range as well), so the three always sum to
\* the number of email-like rows processed.
C2_AuditSum ==
  /\ year_audit["date_valid"] + year_audit["fallback_file"] + year_audit["unknown"]
       = Cardinality(EmailIdx)
  /\ Cardinality(EmailIdx) = email_like_all

C2_AuditStep ==
  LET three == {"date_valid", "fallback_file", "unknown"}
      bumped == {k \in three : year_audit'[k] = year_audit[k] + 1}
  IN IF email_like_all' = email_like_all + 1
     THEN /\ Cardinality(bumped) = 1
          /\ \A k \in three \ bumped : year_audit'[k] = year_audit[k]
          /\ year_audit'["date_out_of_range"] - year_audit["date_out_of_range"] \in {0, 1}
     ELSE year_audit' = year_audit

C2_AuditCompleteness == [](C2_AuditSum) /\ [][C2_AuditStep]_vars

C2_Witness ==
  /\ year_audit["date_valid"] >= 1
  /\ year_audit["fallback_file"] >= 1
  /\ year_audit["date_out_of_range"] >= 1
  /\ email_like_all = 3
  /\ total_rows_all = 4

\* C7: email-like rows with the same from_domain and normalized subject whose
\* normalized bodies are both shorter than 5 characters have one signature, even
\* when the bodies differ, and the census holds them as a single entry.
C7_ShortBodyOverMerge ==
  \A i \in EmailIdx : \A j \in EmailIdx :
    LET ri == stream[i][1]
        rj == stream[j][1]
    IN ( /\ i < j
         /\ Len(ContNormOf(ri)) < MIN_CONTENT_CHARS
         /\ Len(ContNormOf(rj)) < MIN_CONTENT_CHARS
         /\ DomainOf(ri) = DomainOf(rj)
         /\ SubjNormOf(ri) = SubjNormOf(rj) )
       => /\ StreamSig(i) = StreamSig(j)
          /\ StreamSig(i) \in DOMAIN sig_counter
          /\ sig_counter[StreamSig(i)] >= 2
          /\ pc = "done" => unique_emails < email_like_all

C7_Witness ==
  /\ pc = "done"
  /\ Len(stream) = 2
  /\ EmailIdx = {1, 2}
  /\ ContNormOf(stream[1][1]) # ContNormOf(stream[2][1])
  /\ Len(ContNormOf(stream[1][1])) < MIN_CONTENT_CHARS
  /\ Len(ContNormOf(stream[2][1])) < MIN_CONTENT_CHARS
  /\ unique_emails = 1
  /\ duplicates = 1

\* C8: the example list of every signature has at most 3 entries, and exactly
\* min(3, number of rows seen with that signature).
C8_BoundedExamples ==
  /\ DOMAIN sig_examples = StreamSigs
  /\ \A s \in DOMAIN sig_examples :
       /\ Len(sig_examples[s]) <= 3
       /\ Len(sig_examples[s]) = Min(3, Occurrences(s))
       /\ Len(sig_examples[s]) = Min(3, sig_counter[s])

C8_Witness ==
  \E s \in DOMAIN sig_examples : sig_counter[s] = 4 /\ Len(sig_examples[s]) = 3

\* C9: the earliest year of a signature is the numerically smallest non-empty
\* year resolved for a row with that signature, and is absent when no such row
\* resolved a year; every stored year is a validated 4-digit string.
C9_EarliestYear ==
  \A s \in StreamSigs :
    LET years == {StreamYear(i) : i \in {j \in EmailIdx : StreamSig(j) = s}} \ {<<>>}
    IN IF years = {} THEN s \notin DOMAIN sig_first_year
       ELSE /\ s \in DOMAIN sig_first_year
            /\ sig_first_year[s] \in years
            /\ _valid_year(sig_first_year[s])
            /\ \A y \in years : str_int(sig_first_year[s]) <= str_int(y)

C9_Witness ==
  /\ Len(stream) = 2
  /\ EmailIdx = {1, 2}
  /\ StreamSig(1) = StreamSig(2)
  /\ StreamYear(1) # <<>>
  /\ StreamYear(2) # <<>>
  /\ str_int(StreamYear(2)) < str_int(StreamYear(1))
  /\ sig_first_year[StreamSig(1)] = StreamYear(2)
  /\ sig_counter[StreamSig(1)] = 2

\* C10: the signature counter has one entry per distinct signature of the
\* email-like rows, each counting the rows with that signature (at least 1);
\* the counts sum to the email-like row count and the unique-email count is the
\* number of entries.
C10_OccurrenceCounting ==
  /\ DOMAIN sig_counter = StreamSigs
  /\ \A s \in DOMAIN sig_counter : sig_counter[s] = Occurrences(s) /\ sig_counter[s] >= 1
  /\ SumOver(sig_counter, DOMAIN sig_counter) = email_like_all
  /\ email_like_all = Cardinality(EmailIdx)
  /\ pc = "done" => unique_emails = Cardinality(StreamSigs)

C10_Witness ==
  /\ Len(stream) = 3
  /\ EmailIdx = {1, 3}
  /\ StreamSig(1) = StreamSig(3)
  /\ stream[1][1] # stream[3][1]
  /\ DOMAIN sig_counter = {StreamSig(1)}
  /\ sig_counter[StreamSig(1)] = 2
  /\ pc = "done"
  /\ unique_emails = 1

\* C25: when the census is done, every year's raw tally is at least its unique
\* tally (each signature whose earliest year is y has a row resolved to y), so the
\* estimated duplicates of the year are raw - unique without the clamp, and every
\* signature with a year is counted in exactly one year.
C25_PerYearClampNeverNeeded ==
  pc = "done" =>
    LET out == PerYearCounts(per_year_raw, per_year_unique)
    IN /\ \A k \in 1..Len(out) :
            /\ out[k][2] >= out[k][3]
            /\ out[k][4] = out[k][2] - out[k][3]
            /\ out[k][2] = Cardinality({i \in EmailIdx : StreamYear(i) = out[k][1]})
            /\ out[k][3] = Cardinality({s \in DOMAIN sig_first_year :
                                          sig_first_year[s] = out[k][1]})
       /\ {out[k][1] : k \in 1..Len(out)} = DOMAIN per_year_raw
       /\ \A s \in DOMAIN sig_first_year :
            /\ \E i \in EmailIdx : StreamSig(i) = s /\ StreamYear(i) = sig_first_year[s]
            /\ Cardinality({y \in DOMAIN per_year_unique : sig_first_year[s] = y}) = 1
       /\ SumOver(per_year_unique, DOMAIN per_year_unique)
            = Cardinality(DOMAIN sig_first_year)

\* the census is done, one year holds two rows of one signature, and another year
\* holds a row of a signature that is counted in an earlier year
C25_Witness ==
  /\ pc = "done"
  /\ \E y \in DOMAIN per_year_raw :
       per_year_raw[y] = 2 /\ CounterGet(per_year_unique, y) = 1
  /\ \E y \in DOMAIN per_year_raw : y \notin DOMAIN per_year_unique
  /\ Len(PerYearCounts(per_year_raw, per_year_unique)) = 2

\* a 4-digit string whose number lies within [2005, 2024]
FourDigitYearInRange(y) ==
  /\ Len(y) = 4
  /\ \A k \in 1..4 : IsDigit(y[k])
  /\ 2005 <= str_int(y)
  /\ str_int(y) <= 2024

\* C26: after any sequence of rows, the per-year raw tallies sum to date_valid +
\* fallback_file, every key of the per-year raw tally and every stored earliest
\* year is a 4-digit string within [2005, 2024], and unknown is the number of
\* email-like rows whose year resolved to the empty string.
C26_YearTalliesAndAuditAgree ==
  /\ SumOver(per_year_raw, DOMAIN per_year_raw)
       = year_audit["date_valid"] + year_audit["fallback_file"]
  /\ \A y \in DOMAIN per_year_raw : FourDigitYearInRange(y) /\ per_year_raw[y] >= 1
  /\ \A s \in DOMAIN sig_first_year : FourDigitYearInRange(sig_first_year[s])
  /\ year_audit["unknown"] = Cardinality({i \in EmailIdx : StreamYear(i) = <<>>})

C26_Witness ==
  /\ year_audit["date_valid"] = 2
  /\ year_audit["unknown"] = 1
  /\ year_audit["date_out_of_range"] = 1
  /\ Cardinality(DOMAIN per_year_raw) = 2
  /\ SumOver(per_year_raw, DOMAIN per_year_raw) = 2
  /\ Cardinality(DOMAIN sig_first_year) >= 1

(***************************************************************************)
(* The year resolver on its own: one call of guess_year_with_audit on a    *)
(* date field and a file name drawn from bounded sets of texts             *)
(***************************************************************************)
MaxDateParts == 3

Y_2004 == <<"2","0","0","4">>
Y_2005 == <<"2","0","0","5">>
Y_2025 == <<"2","0","2","5">>
F_2024 == <<"p","-","2","0","2","4",".","c","s","v">>
F_2025 == <<"p","-","2","0","2","5",".","c","s","v">>
F_us   == <<"p","_","2","0","1","0",".","c","s","v">>
F_old_new == <<"1","9","9","9","-","2","0","1","0",".","c","s","v">>
F_new_old == <<"2","0","1","0","-","1","9","9","9",".","c","s","v">>

\* all concatenations of at most n of the parts
TextsUpTo(parts, n) ==
  LET t[k \in 0..n] == IF k = 0 THEN {<<>>}
                       ELSE t[k - 1] \cup {a \o b : a \in t[k - 1], b \in parts}
  IN t[n]

DateParts == {D_1999, Y_2004, Y_2005, D_2010, D_2024, Y_2025, <<" ">>, <<"x">>}
DateTexts == TextsUpTo(DateParts, MaxDateParts)
YearRows  == {[date |-> d] : d \in DateTexts} \cup {[date |-> NoneVal], [subject |-> T_Hi]}
FileTexts == {F_none, F_2006, F_2024, F_2025, F_us, F_old_new, F_new_old}
PriorAudits == {ZeroAudit,
                [date_valid |-> 2, fallback_file |-> 1, unknown |-> 1,
                 date_out_of_range |-> 1]}

InitYear ==
  /\ pc = "year_call"
  /\ InitCalls
  /\ row \in YearRows
  /\ path_name \in FileTexts
  /\ year_audit \in PriorAudits
  /\ yr = <<>>
  /\ sig = <<>>
  /\ InitAggregates
  /\ base_row = EmptyMap
  /\ base_sig = <<>>
  /\ edits = <<>>

\* line 262: yr = guess_year_with_audit(row, path.name, year_audit)
YearCall ==
  /\ pc = "year_call"
  /\ pc' = "year_done"
  /\ yr' = guess_year_with_audit(row, path_name, year_audit).ret
  /\ year_audit' = guess_year_with_audit(row, path_name, year_audit).audit
  /\ UNCHANGED <<row, path_name, sig>>
  /\ UNCHANGED aggVars
  /\ UNCHANGED pairVars
  /\ UNCHANGED callVars

NextYear == YearCall

SpecYear == InitYear /\ [][NextYear]_vars

\* the matches of YEAR_RX anywhere in a text, inside and outside [2005, 2024]
YearTokensAt(s) == {i \in 1..Len(s) : YearRxAt(s, i)}
InRangeTokens(s)  == {SubSeq(s, i, i + 3) : i \in {j \in YearTokensAt(s) :
                                                     _valid_year(SubSeq(s, j, j + 3))}}
OutRangeTokens(s) == {SubSeq(s, i, i + 3) : i \in {j \in YearTokensAt(s) :
                                                     ~_valid_year(SubSeq(s, j, j + 3))}}
DateField == safe_get(row, "date")

\* C3 as stated: whenever the date field contains an in-range year token anywhere,
\* the call returns an in-range year of the date field and counts date_valid.
C3_AnyDateYearWins ==
  [][ (pc = "year_call" /\ pc' = "year_done" /\ InRangeTokens(DateField) # {})
      => /\ yr' \in InRangeTokens(DateField)
         /\ year_audit' = AuditInc(year_audit, "date_valid") ]_vars

\* C3 (amended): whenever the first year-shaped token of the date field (the
\* leftmost match of \b(19|20)\d\d\b) lies in [2005, 2024], the call returns that
\* token and counts date_valid only, whatever the file name holds.
C3_FirstDateYearWins ==
  [][ (pc = "year_call" /\ pc' = "year_done" /\ _valid_year(YEAR_RX_search(DateField)))
      => /\ yr' = YEAR_RX_search(DateField)
         /\ year_audit' = AuditInc(year_audit, "date_valid") ]_vars

C3_Witness ==
  /\ pc = "year_done"
  /\ _valid_year(YEAR_RX_search(DateField))
  /\ yr = YEAR_RX_search(DateField)
  /\ _valid_year(YEAR_RX_search(path_name))
  /\ YEAR_RX_search(path_name) # yr
  /\ year_audit["date_valid"] = 3

\* C4 as stated: whenever the date field holds a year-shaped token outside
\* [2005, 2024], the call counts date_out_of_range and then returns the valid year
\* the file name holds (counting fallback_file), or the empty string when the file
\* name holds none (counting unknown).
C4_AnyOutOfRangeFallsBack ==
  [][ (pc = "year_call" /\ pc' = "year_done" /\ OutRangeTokens(DateField) # {})
      => IF InRangeTokens(path_name) # {}
         THEN /\ yr' \in InRangeTokens(path_name)
              /\ year_audit' = AuditInc(AuditInc(year_audit, "date_out_of_range"),
                                        "fallback_file")
         ELSE /\ yr' = <<>>
              /\ year_audit' = AuditInc(AuditInc(year_audit, "date_out_of_range"),
                                        "unknown") ]_vars

\* C4 (amended): whenever the first year-shaped token of the date field lies
\* outside [2005, 2024], the call counts date_out_of_range and then returns the
\* first year-shaped token of the file name when that lies in [2005, 2024]
\* (counting fallback_file), and otherwise the empty string (counting unknown);
\* date_valid is unchanged and only one of fallback_file, unknown moves.
C4_FirstOutOfRangeFallsBack ==
  [][ ( /\ pc = "year_call" /\ pc' = "year_done"
        /\ YEAR_RX_search(DateField) # <<>>
        /\ ~_valid_year(YEAR_RX_search(DateField)) )
      => IF _valid_year(YEAR_RX_search(path_name))
         THEN /\ yr' = YEAR_RX_search(path_name)
              /\ year_audit' = AuditInc(AuditInc(year_audit, "date_out_of_range"),
                                        "fallback_file")
         ELSE /\ yr' = <<>>
              /\ year_audit' = AuditInc(AuditInc(year_audit, "date_out_of_range"),
                                        "unknown") ]_vars

C4_Witness ==
  /\ pc = "year_done"
  /\ YEAR_RX_search(DateField) # <<>>
  /\ ~_valid_year(YEAR_RX_search(DateField))
  /\ yr = YEAR_RX_search(path_name)
  /\ _valid_year(yr)
  /\ year_audit = [date_valid |-> 2, fallback_file |-> 2, unknown |-> 1,
                   date_out_of_range |-> 2]

(***************************************************************************)
(* The signature builder on its own: two records, the second one rewritten *)
(* step by step in ways that should not change its signature               *)
(***************************************************************************)
MaxEdits == 3

T_HiThere   == <<"H","i"," "," ","t","h","e","r","e">>
T_ReHiThere == <<"R","e",":"," ","H","i"," ","t","h","e","r","e">>
T_hell      == <<"h","e","l","l">>
T_hello     == <<"h","e","l","l","o">>
T_emptyTags == <<"<","b",">","<","/","b",">">>
T_bcom      == <<"b",".","c","o","m">>

SigRows == {
  [subject |-> T_HiThere, from_domain |-> T_acom, body |-> T_hello1],
  [subject |-> T_ReHiThere, from_domain |-> T_acom, body |-> T_hello2],
  [subject |-> T_HiThere, from_domain |-> T_acom, body |-> T_hell],
  [subject |-> T_HiThere, from_domain |-> T_acom, body |-> T_hello],
  [subject |-> T_HiThere, from_domain |-> T_acom, body |-> T_no],
  [subject |-> T_HiThere, from_domain |-> T_bcom, body |-> T_hello1],
  [subject |-> T_HiThere, from_domain |-> T_acom, sanitized_body |-> T_emptyTags,
   body |-> T_hello1]
}

InitSig ==
  /\ pc = "sig_build"
  /\ InitCalls
  /\ base_row \in SigRows
  /\ row \in SigRows
  /\ edits = IF row = base_row THEN <<>> ELSE <<"unrelated">>
  /\ base_sig = <<>>
  /\ sig = <<>>
  /\ yr = <<>>
  /\ path_name = <<>>
  /\ year_audit = ZeroAudit
  /\ InitAggregates

\* rewritings of a text
str_upper(s) ==
  [i \in 1..Len(s) |->
     IF s[i] \in LowerSet THEN UpperChars[CHOOSE k \in 1..26 : LowerChars[k] = s[i]]
     ELSE s[i]]
\* every whitespace run made longer, with another kind of whitespace
WidenWs(s) ==
  LET m == [i \in 1..(2 * Len(s)) |->
              IF i % 2 = 1 THEN s[(i + 1) \div 2]
              ELSE (IF IsSpace(s[i \div 2]) THEN "\t" ELSE "")]
  IN SelectSeq(m, LAMBDA c : c # "")
PadWs(s) == <<" ">> \o s \o <<"\n">>
CosmeticTexts(s) == {str_upper(s), str_lower(s), WidenWs(s), PadWs(s)}

Markers == { <<"R","e",":"," ">>, <<"F","W",":">>, <<"f","w","d"," ",":"," ">> }
HasMarker(s) == SubjectMarkerLen(str_lower(str_strip(s))) > 0
DropMarker(s) ==
  LET t == str_strip(s) IN SubSeq(t, SubjectMarkerLen(str_lower(t)) + 1, Len(t))

\* HTML renderings of a plain text: wrapped in a paragraph, line breaks for spaces
HtmlWrap(s)   == <<"<","p",">">> \o s \o <<"<","/","p",">">>
HtmlBreaks(s) ==
  LET m == [i \in 1..(4 * Len(s)) |->
              IF ~IsSpace(s[(i + 3) \div 4]) THEN (IF i % 4 = 1 THEN s[(i + 3) \div 4] ELSE "")
              ELSE <<"<", "b", "r", ">">>[((i - 1) % 4) + 1]]
  IN SelectSeq(m, LAMBDA c : c # "")
\* the first letter of the text in bold: a tag inside a word
HtmlBoldInitial(s) == <<"<","b",">">> \o SubSeq(s, 1, 1) \o <<"<","/","b",">">> \o Tail(s)

WithField(rw, key, val) == [k \in DOMAIN rw \cup {key} |-> IF k = key THEN val ELSE rw[k]]
WithoutField(rw, key) == [k \in DOMAIN rw \ {key} |-> rw[k]]

\* lines 253: both signatures are built
BuildBoth ==
  /\ pc = "sig_build"
  /\ pc' = "sig_edit"
  /\ base_sig' = build_signature(base_row)
  /\ sig' = build_signature(row)
  /\ UNCHANGED <<row, base_row, edits, yr, path_name, year_audit>>
  /\ UNCHANGED aggVars
  /\ UNCHANGED callVars

\* the record becomes r2 by an edit of the given kind, and its signature is rebuilt
Rewrite(r2, kind) ==
  /\ pc = "sig_edit"
  /\ Len(edits) < MaxEdits
  /\ r2 # row
  /\ row' = r2
  /\ sig' = build_signature(r2)
  /\ edits' = Append(edits, kind)
  /\ UNCHANGED <<pc, base_row, base_sig, yr, path_name, year_audit>>
  /\ UNCHANGED aggVars
  /\ UNCHANGED callVars

Applied(kind) == \E i \in 1..Len(edits) : edits[i] = kind

\* from_domain in another case or with surrounding whitespace
EditDomain ==
  \E d \in CosmeticTexts(safe_get(row, "from_domain")) \ {WidenWs(safe_get(row, "from_domain"))} :
    Rewrite(WithField(row, "from_domain", d), "domain")

\* subject in another case, with other whitespace runs, or padded
EditSubject ==
  \E t \in CosmeticTexts(safe_get(row, "subject")) :
    Rewrite(WithField(row, "subject", t), "subject")

\* one leading Re:/Fw:/Fwd: marker added in front of the subject
AddMarker ==
  /\ ~Applied("marker") /\ ~Applied("marker_stacked")
  /\ \E m \in Markers :
       Rewrite(WithField(row, "subject", m \o safe_get(row, "subject")),
               IF HasMarker(safe_get(row, "subject")) THEN "marker_stacked" ELSE "marker")

\* the leading marker of the subject replaced by one of another kind
SwapMarker ==
  /\ ~Applied("marker") /\ ~Applied("marker_stacked")
  /\ HasMarker(safe_get(row, "subject"))
  /\ \E m \in Markers :
       Rewrite(WithField(row, "subject", m \o DropMarker(safe_get(row, "subject"))),
               "marker")

\* the leading marker of the subject removed
RemoveMarker ==
  /\ ~Applied("marker") /\ ~Applied("marker_stacked")
  /\ HasMarker(safe_get(row, "subject"))
  /\ Rewrite(WithField(row, "subject", DropMarker(safe_get(row, "subject"))),
             IF HasMarker(DropMarker(safe_get(row, "subject")))
             THEN "marker_stacked" ELSE "marker")

\* plain-text body in another case, with other whitespace runs, or padded
EditBody ==
  /\ "body" \in DOMAIN row
  /\ \E t \in CosmeticTexts(row["body"]) : Rewrite(WithField(row, "body", t), "body")

\* the plain-text body delivered as HTML instead, tags between the words
BodyAsHtml ==
  /\ "body" \in DOMAIN row
  /\ "sanitized_body" \notin DOMAIN row
  /\ \E h \in {HtmlWrap(row["body"]), HtmlBreaks(row["body"])} :
       Rewrite(WithField(WithoutField(row, "body"), "sanitized_body", h), "html")

\* the plain-text body delivered as HTML instead, with a tag inside its first word
BodyAsHtmlInWord ==
  /\ "body" \in DOMAIN row
  /\ "sanitized_body" \notin DOMAIN row
  /\ Len(row["body"]) >= 2
  /\ IsWord(row["body"][1]) /\ IsWord(row["body"][2])
  /\ Rewrite(WithField(WithoutField(row, "body"), "sanitized_body",
                       HtmlBoldInitial(row["body"])), "html_in_word")

NextSig ==
  \/ BuildBoth
  \/ EditDomain
  \/ EditSubject
  \/ AddMarker
  \/ SwapMarker
  \/ RemoveMarker
  \/ EditBody
  \/ BodyAsHtml
  \/ BodyAsHtmlInWord

SpecSig == InitSig /\ [][NextSig]_vars

RowContNorm  == normalize_text(SelectedContent(row))
BaseContNorm == normalize_text(SelectedContent(base_row))

\* C6: the content component of a signature is the empty sentinel exactly when
\* the normalized content has fewer than 5 characters and is its digest
\* otherwise; no digest equals the sentinel, so a short-bodied record and a
\* record with 5 or more normalized characters never share a signature.
C6_ShortBodySentinel ==
  pc = "sig_edit" =>
    /\ sig[3] = <<>> <=> Len(RowContNorm) < 5
    /\ base_sig[3] = <<>> <=> Len(BaseContNorm) < 5
    /\ Len(RowContNorm) >= 5 => sig[3] = sha1_hexdigest(RowContNorm)
    /\ Len(BaseContNorm) >= 5 => base_sig[3] = sha1_hexdigest(BaseContNorm)
    /\ sha1_hexdigest(RowContNorm) # <<>>
    /\ (Len(RowContNorm) < 5) # (Len(BaseContNorm) < 5) => sig # base_sig

C6_Witness ==
  /\ pc = "sig_edit"
  /\ Len(BaseContNorm) = 4
  /\ Len(RowContNorm) = 5
  /\ sig[1] = base_sig[1]
  /\ sig[2] = base_sig[2]
  /\ base_sig[3] = <<>>
  /\ sig[3] # <<>>

(***************************************************************************)
(* The report writer on its own: the top duplicate clusters of a counter   *)
(* large enough for the cap to cut.  In this specification sig_counter is  *)
(* the sequence of the counts in insertion order, a signature being named  *)
(* by its rank of insertion.                                               *)
(***************************************************************************)
TOP_DUP_CLUSTERS == 50

MaxBlocks == 3

\* a run of n signatures that all occurred c times
Block(c, n) == [i \in 1..n |-> c]
BlockLens == {1, 25, 49, 50}
BlockCounts == {1, 2, 3}
BlockCounters ==
  LET upto[k \in 0..MaxBlocks] ==
        IF k = 0 THEN {<<>>}
        ELSE upto[k - 1] \cup
             {c \o Block(n, len) : c \in upto[k - 1], n \in BlockCounts, len \in BlockLens}
  IN upto[MaxBlocks]

\* Counter.items(): the (signature, count) pairs in insertion order
CounterItems(counter) == [i \in 1..Len(counter) |-> <<i, counter[i]>>]

\* Counter.most_common(n): sorted by count, largest first, equal counts in insertion
\* order (the sort is stable), cut to the first n
most_common(items, n) ==
  LET counts == {items[i][2] : i \in 1..Len(items)}
      hi == IF counts = {} THEN 0 ELSE CHOOSE c \in counts : \A d \in counts : d <= c
      HasCount(c) == LET Test(it) == it[2] = c IN SelectSeq(items, Test)
      desc[c \in 1..(hi + 1)] == IF c = hi + 1 THEN <<>> ELSE desc[c + 1] \o HasCount(c)
      sorted == desc[1]
  IN SubSeq(sorted, 1, IF n < Len(sorted) THEN n ELSE Len(sorted))

\* the cluster list without the count filter
TopDupClusters_no_filter(items) == most_common(items, TOP_DUP_CLUSTERS)

\* line 320: [item for item in sig_counter.most_common(TOP_DUP_CLUSTERS) if item[1] >= 2]
TopDupClusters(items) ==
  LET AtLeastTwo(it) == it[2] >= 2
  IN SelectSeq(most_common(items, TOP_DUP_CLUSTERS), AtLeastTwo)

InitTop ==
  /\ pc = "report"
  /\ sig_counter \in BlockCounters
  /\ stream = <<>>
  /\ path_name = <<>>
  /\ rows_in_file = 0
  /\ email_like_in_file = 0
  /\ seen_sigs_this_file = {}
  /\ file_counts = <<>>
  /\ total_rows_all = 0
  /\ email_like_all = 0
  /\ sig_examples = EmptyMap
  /\ sig_first_year = EmptyMap
  /\ per_year_raw = EmptyMap
  /\ per_year_unique = EmptyMap
  /\ year_audit = ZeroAudit
  /\ row = EmptyMap
  /\ sig = <<>>
  /\ yr = <<>>
  /\ unique_emails = 0
  /\ duplicates = 0
  /\ dup_rate = [num |-> 0, den |-> 1]
  /\ base_row = EmptyMap
  /\ base_sig = <<>>
  /\ edits = <<>>
  /\ InitCalls

\* lines 316-328: the rows of duplicates_top.csv are computed
WriteTopDups ==
  /\ pc = "report"
  /\ pc' = "report_done"
  /\ top_dups' = TopDupClusters(CounterItems(sig_counter))
  /\ UNCHANGED <<text, called, result, raised, header>>
  /\ UNCHANGED <<path_name, year_audit, row, sig, yr>>
  /\ UNCHANGED aggVars
  /\ UNCHANGED pairVars

NextTop == WriteTopDups

SpecTop == InitTop /\ [][NextTop]_vars

\* the signatures that occurred at least twice
DupSigs == {i \in 1..Len(sig_counter) : sig_counter[i] >= 2}

\* filter to count >= 2 first, then take the 50 most common
FilterThenTruncate(items) ==
  LET AtLeastTwo(it) == it[2] >= 2
  IN most_common(SelectSeq(items, AtLeastTwo), TOP_DUP_CLUSTERS)

\* C11: the reported clusters are signatures that occurred at least twice, each
\* with its count, in non-increasing order of count, min(50, number of such
\* signatures) of them, none left out having a larger count than one kept; and
\* truncating to 50 before filtering gives the same list as filtering first.
C11_TopDuplicateClusters ==
  pc = "report_done" =>
    LET n == Len(top_dups)
        kept == {top_dups[k][1] : k \in 1..n}
    IN /\ \A k \in 1..n : /\ top_dups[k][1] \in DupSigs
                          /\ top_dups[k][2] = sig_counter[top_dups[k][1]]
       /\ Cardinality(kept) = n
       /\ \A k \in 1..n : \A m \in 1..n : k < m => top_dups[k][2] >= top_dups[m][2]
       /\ n = Min(TOP_DUP_CLUSTERS, Cardinality(DupSigs))
       /\ \A i \in DupSigs \ kept : \A k \in 1..n : sig_counter[i] <= top_dups[k][2]
       /\ top_dups = FilterThenTruncate(CounterItems(sig_counter))

C11_Witness ==
  /\ pc = "report_done"
  /\ Cardinality(DupSigs) > TOP_DUP_CLUSTERS
  /\ \E i \in 1..Len(sig_counter) : sig_counter[i] = 1
  /\ Len(top_dups) = TOP_DUP_CLUSTERS
  /\ top_dups[1][2] > top_dups[TOP_DUP_CLUSTERS][2]
  /\ top_dups[1][1] > top_dups[TOP_DUP_CLUSTERS][1]

(***************************************************************************)
(* Further properties of the census loop                                   *)
(***************************************************************************)
\* the record has no non-blank subject-like field and no non-blank HTML/body-like field
NoTextField(r) ==
  \A k \in DOMAIN r :
    (\E i \in 1..Len(LIKELY_SUBJECT_KEYS) : LIKELY_SUBJECT_KEYS[i] = k)
    \/ (\E i \in 1..Len(LIKELY_HTML_KEYS) : LIKELY_HTML_KEYS[i] = k)
    \/ (\E i \in 1..Len(LIKELY_BODY_KEYS) : LIKELY_BODY_KEYS[i] = k)
    => (r[k] = NoneVal \/ \A i \in 1..Len(r[k]) : IsSpace(r[k][i]))

C12_Step ==
  (total_rows_all' = total_rows_all + 1 /\ NoTextField(row'))
  => /\ rows_in_file' = rows_in_file + 1
     /\ UNCHANGED <<email_like_all, email_like_in_file, sig_counter, sig_examples,
                    sig_first_year, per_year_raw, year_audit, seen_sigs_this_file,
                    per_year_unique, unique_emails, duplicates, dup_rate, file_counts>>

\* C12: a step of the census loop that reads a row with no non-blank subject-like
\* field and no non-blank HTML/body-like field changes only the row totals: the
\* email-like counts, the signature counter, the example lists, the earliest-year
\* map, the per-year raw tally and the four year-audit counters stay as they were.
C12_NonEmailFrame == [][C12_Step]_vars

C12_Witness ==
  /\ Len(stream) = 3
  /\ NoTextField(stream[3][1])
  /\ row = stream[3][1]
  /\ total_rows_all = 3
  /\ email_like_all = 2
  /\ Cardinality(DOMAIN sig_counter) = 2
  /\ year_audit["date_out_of_range"] = 1
  /\ year_audit["date_valid"] = 1

(***************************************************************************)
(* Cue detection (src/src/cues.py): the lexicon, the compiled whole-word   *)
(* matchers and the per-category counts                                    *)
(***************************************************************************)
\* the categories of CUE_LEXICON, in the order of the dict
CUE_CATEGORIES ==
  <<"authority", "urgency", "scarcity", "fear_loss", "consistency_commitment", "similarity_socialproof", "reward_reciprocity", "brand_trust">>
\* category -> phrases (lines 13-53)
CUE_LEXICON ==
  [authority |-> <<
     <<"o","f","f","i","c","i","a","l"," ","n","o","t","i","c","e">>,
     <<"a","c","c","o","u","n","t"," ","r","e","v","i","e","w"," ","t","e","a","m">>,
     <<"s","e","c","u","r","i","t","y"," ","t","e","a","m">>,
     <<"c","o","m","p","l","i","a","n","c","e"," ","t","e","a","m">>,
     <<"v","e","r","i","f","i","e","d"," ","b","a","d","g","e">>,
     <<"s","u","p","p","o","r","t"," ","t","e","a","m">>,
     <<"c","u","s","t","o","m","e","r"," ","s","e","r","v","i","c","e">>,
     <<"h","e","l","p"," ","c","e","n","t","e","r">>,
     <<"a","d","m","i","n","i","s","t","r","a","t","o","r">>,
     <<"a","d","m","i","n">>,
     <<"s","e","c","u","r","i","t","y">>,
     <<"s","u","p","p","o","r","t">>,
     <<"s","e","r","v","i","c","e">>,
     <<"n","o","t","i","c","e">>>>,
   urgency |-> <<
     <<"u","r","g","e","n","t"," ","a","c","t","i","o","n"," ","r","e","q","u","i","r","e","d">>,
     <<"a","c","t"," ","n","o","w">>,
     <<"i","m","m","e","d","i","a","t","e"," ","a","c","t","i","o","n">>,
     <<"f","i","n","a","l"," ","n","o","t","i","c","e">>,
     <<"e","x","p","i","r","e","s"," ","s","o","o","n">>,
     <<"d","e","a","d","l","i","n","e">>,
     <<"v","e","r","i","f","y"," ","w","i","t","h","i","n"," ","2","4"," ","h","o","u","r","s">>,
     <<"u","r","g","e","n","t">>,
     <<"i","m","m","e","d","i","a","t","e","l","y">>,
     <<"n","o","w">>,
     <<"t","o","d","a","y">>,
     <<"m","i","n","u","t","e","s">>,
     <<"h","o","u","r","s">>,
     <<"2","4"," ","h","o","u","r","s">>>>,
   scarcity |-> <<
     <<"o","n","l","y"," ","a"," ","f","e","w"," ","l","e","f","t">>,
     <<"l","i","m","i","t","e","d"," ","a","v","a","i","l","a","b","i","l","i","t","y">>,
     <<"l","i","m","i","t","e","d"," ","s","l","o","t","s">>,
     <<"w","h","i","l","e"," ","s","u","p","p","l","i","e","s"," ","l","a","s","t">>,
     <<"l","i","m","i","t","e","d">>,
     <<"l","a","s","t"," ","c","h","a","n","c","e">>,
     <<"o","n","l","y"," ","t","o","d","a","y">>>>,
   fear_loss |-> <<
     <<"u","n","u","s","u","a","l"," ","a","c","t","i","v","i","t","y"," ","d","e","t","e","c","t","e","d">>,
     <<"u","n","a","u","t","h","o","r","i","s","e","d"," ","l","o","g","i","n">>,
     <<"u","n","a","u","t","h","o","r","i","z","e","d"," ","l","o","g","i","n">>,
     <<"y","o","u","r"," ","a","c","c","o","u","n","t"," ","i","s"," ","l","o","c","k","e","d">>,
     <<"p","a","y","m","e","n","t"," ","f","a","i","l","e","d">>,
     <<"s","u","s","p","i","c","i","o","u","s"," ","a","c","t","i","v","i","t","y">>,
     <<"s","e","c","u","r","i","t","y"," ","a","l","e","r","t">>,
     <<"f","r","a","u","d"," ","a","l","e","r","t">>,
     <<"s","u","s","p","e","n","d","e","d">>,
     <<"s","u","s","p","e","n","s","i","o","n">>,
     <<"l","o","c","k","e","d">>,
     <<"d","i","s","a","b","l","e","d">>,
     <<"r","e","s","t","r","i","c","t","e","d">>,
     <<"c","o","m","p","r","o","m","i","s","e","d">>,
     <<"v","i","o","l","a","t","i","o","n">>,
     <<"f","a","i","l","e","d">>,
     <<"f","a","i","l","u","r","e">>,
     <<"a","l","e","r","t">>,
     <<"w","a","r","n","i","n","g">>>>,
   consistency_commitment |-> <<
     <<"c","o","n","f","i","r","m"," ","y","o","u","r"," ","i","d","e","n","t","i","t","y">>,
     <<"v","e","r","i","f","y"," ","y","o","u","r"," ","a","c","c","o","u","n","t">>,
     <<"u","p","d","a","t","e"," ","y","o","u","r"," ","d","e","t","a","i","l","s">>,
     <<"c","o","m","p","l","e","t","e"," ","y","o","u","r"," ","p","r","o","f","i","l","e">>,
     <<"c","o","n","t","i","n","u","e"," ","t","o"," ","y","o","u","r"," ","a","c","c","o","u","n","t">>,
     <<"c","o","n","f","i","r","m">>,
     <<"v","e","r","i","f","y">>,
     <<"u","p","d","a","t","e">>,
     <<"c","o","n","t","i","n","u","e">>,
     <<"p","r","o","c","e","e","d">>,
     <<"s","u","b","m","i","t">>,
     <<"r","e","s","o","l","v","e">>,
     <<"l","o","g","i","n">>,
     <<"s","i","g","n"," ","i","n">>,
     <<"r","e","s","e","t">>,
     <<"p","a","s","s","w","o","r","d">>,
     <<"i","d","e","n","t","i","t","y">>,
     <<"a","c","c","o","u","n","t">>>>,
   similarity_socialproof |-> <<
     <<"p","e","o","p","l","e"," ","l","i","k","e"," ","y","o","u">>,
     <<"a","s"," ","r","e","c","o","m","m","e","n","d","e","d">>,
     <<"p","o","p","u","l","a","r"," ","c","h","o","i","c","e">>,
     <<"t","r","e","n","d","i","n","g"," ","n","o","w">>,
     <<"r","e","c","o","m","m","e","n","d","e","d">>,
     <<"p","o","p","u","l","a","r">>,
     <<"t","r","e","n","d","i","n","g">>>>,
   reward_reciprocity |-> <<
     <<"c","l","a","i","m"," ","y","o","u","r"," ","r","e","w","a","r","d">>,
     <<"y","o","u"," ","h","a","v","e"," ","w","o","n">>,
     <<"e","x","c","l","u","s","i","v","e"," ","o","f","f","e","r">>,
     <<"c","o","n","g","r","a","t","u","l","a","t","i","o","n","s">>,
     <<"r","e","w","a","r","d">>,
     <<"b","o","n","u","s">>,
     <<"v","o","u","c","h","e","r">>,
     <<"g","i","f","t">>,
     <<"p","r","i","z","e">>>>,
   brand_trust |-> <<
     <<"a","m","a","z","o","n">>,
     <<"b","a","r","c","l","a","y","s">>,
     <<"f","a","c","e","b","o","o","k">>,
     <<"m","e","t","a">>,
     <<"i","n","s","t","a","g","r","a","m">>,
     <<"m","a","s","t","e","r","c","a","r","d">>,
     <<"n","e","t","f","l","i","x">>,
     <<"p","a","y","p","a","l">>,
     <<"a","p","p","l","e">>,
     <<"m","i","c","r","o","s","o","f","t">>,
     <<"g","o","o","g","l","e">>,
     <<"c","o","i","n","b","a","s","e">>,
     <<"u","p","h","o","l","d">>,
     <<"t","e","l","e","n","e","t">>>>]

CategorySet == {CUE_CATEGORIES[i] : i \in 1..Len(CUE_CATEGORIES)}

\* the compiled pattern without the \b on either side
PhraseEndAt_no_boundary(s, i, phrase) ==
  IF MatchNoCase(s, i, phrase) THEN i + Len(phrase) ELSE 0

\* lines 63-64: \b + re.escape(phrase) + \b under re.IGNORECASE at position i of s:
\* the position after the match, 0 when it does not match there
PhraseEndAt(s, i, phrase) ==
  IF /\ MatchNoCase(s, i, phrase)
     /\ WordBoundary(s, i)
     /\ WordBoundary(s, i + Len(phrase))
  THEN i + Len(phrase) ELSE 0

\* lines 80-82: the number of matches finditer yields, scanning left to right and
\* resuming after each match
finditer_count(s, phrase) ==
  LET n == Len(s)
      cnt[i \in 1..(n + 1)] ==
        IF i > n THEN 0
        ELSE IF PhraseEndAt(s, i, phrase) # 0 THEN 1 + cnt[PhraseEndAt(s, i, phrase)]
        ELSE cnt[i + 1]
  IN cnt[1]

\* line 81: regex_obj.finditer(text) raises TypeError when text is None, before any
\* category is complete
detect_cues_raises(t) == IF t = NoneVal THEN "TypeError" ELSE ""

\* lines 73-88, for a text: category -> (phrase -> count) for the phrases that matched
detect_cues(t) ==
  [c \in CategorySet |->
     LET plist == CUE_LEXICON[c]
         hit == {k \in 1..Len(plist) : finditer_count(t, plist[k]) > 0}
     IN [p \in {plist[k] : k \in hit} |-> finditer_count(t, p)]]

\* summarize_counts that skips the categories without a match
summarize_counts_skip_empty(m) ==
  [c \in {d \in DOMAIN m : DOMAIN m[d] # {}} |-> SumOver(m[c], DOMAIN m[c])]

\* lines 93-100: category -> sum of its phrase counts
summarize_counts(m) == [c \in DOMAIN m |-> SumOver(m[c], DOMAIN m[c])]

(***************************************************************************)
(* The scanners' helpers (src/src/nazario.py, src/src/images.py): the      *)
(* normalizer, the indicator deobfuscation, the surface heuristics and     *)
(* detect_with_extras                                                      *)
(***************************************************************************)
\* images.normalize_text and nazario.normalize_text: "" for None and "", else lowercase,
\* runs outside [a-z0-9] to one space, whitespace runs to one space, strip
images_normalize_text(t) ==
  IF ~Truthy(t) THEN <<>>
  ELSE str_strip(sub_ws_runs(sub_non_alnum_runs(str_lower(t))))

\* len(rx.findall(s)): the matches found scanning left to right, resuming after each;
\* ends[i] is the position after a match starting at i, 0 when there is none
findall_len(s, ends) ==
  LET n == Len(s)
      cnt[i \in 1..(n + 1)] ==
        IF i > n THEN 0
        ELSE IF ends[i] # 0 THEN 1 + cnt[ends[i]]
        ELSE cnt[i + 1]
  IN cnt[1]

\* rx.sub(repl, s) for a pattern that matches no empty string; repl[i] replaces the
\* match starting at i
re_sub(s, ends, repl) ==
  LET n == Len(s)
      out[i \in 1..(n + 1)] ==
        IF i > n THEN <<>>
        ELSE IF ends[i] # 0 THEN repl[i] \o out[ends[i]]
        ELSE <<s[i]>> \o out[i + 1]
  IN out[1]

LitHxxp   == <<"h","x","x","p">>
LitHttp   == <<"h","t","t","p">>
LitScheme == <<":","/","/">>
LitWwwDot == <<"w","w","w",".">>
LitDot    == <<"[",".","]">>

\* DEOBF_HXXP = \bhxxps?:// under re.IGNORECASE
DeobfHxxpEndAt(s, i) ==
  IF WordBoundary(s, i) /\ MatchNoCase(s, i, LitHxxp)
  THEN IF MatchNoCase(s, i + 4, <<"s">>) /\ MatchExact(s, i + 5, LitScheme) THEN i + 8
       ELSE IF MatchExact(s, i + 4, LitScheme) THEN i + 7
       ELSE 0
  ELSE 0

\* the lambda of line 130
DeobfHxxpRepl(s, i) ==
  IF MatchNoCase(s, i, LitHxxp \o <<"s">>) THEN LitHttp \o <<"s">> \o LitScheme
  ELSE LitHttp \o LitScheme

\* DEOBF_DOT = \[(\.)\] and its replacement "."
DeobfDotEndAt(s, i) == IF MatchExact(s, i, LitDot) THEN i + 3 ELSE 0
DeobfDotRepl(s, i) == <<".">>

\* nazario.deobfuscate_iocs (lines 126-132)
deobfuscate_iocs(t) ==
  IF ~Truthy(t) THEN <<>>
  ELSE LET s1 == re_sub(t, [i \in 1..Len(t) |-> DeobfHxxpEndAt(t, i)],
                        [i \in 1..Len(t) |-> DeobfHxxpRepl(t, i)])
       IN re_sub(s1, [i \in 1..Len(s1) |-> DeobfDotEndAt(s1, i)],
                 [i \in 1..Len(s1) |-> DeobfDotRepl(s1, i)])

\* RE_ALL_CAPS = \b[A-Z]{2,}\b
AllCapsEndAt(s, i) ==
  IF i <= Len(s) /\ s[i] \in UpperSet /\ WordBoundary(s, i)
  THEN LET stops == {j \in i..(Len(s) + 1) : j = Len(s) + 1 \/ s[j] \notin UpperSet}
           e == CHOOSE j \in stops : \A k \in stops : j <= k
       IN IF e - i >= 2 /\ WordBoundary(s, e) THEN e ELSE 0
  ELSE 0

\* RE_EXCLAM = !+
ExclamEndAt(s, i) ==
  IF i <= Len(s) /\ s[i] = "!"
  THEN LET stops == {j \in i..(Len(s) + 1) : j = Len(s) + 1 \/ s[j] # "!"}
       IN CHOOSE j \in stops : \A k \in stops : j <= k
  ELSE 0

\* RE_MONEY = [£$€]
MoneyEndAt(s, i) == IF i <= Len(s) /\ s[i] \in {"£", "$", "€"} THEN i + 1 ELSE 0

\* RE_LINK = (https?://|www\.) under re.IGNORECASE
LinkEndAt(s, i) ==
  IF MatchNoCase(s, i, LitHttp)
  THEN IF MatchNoCase(s, i + 4, <<"s">>) /\ MatchExact(s, i + 5, LitScheme) THEN i + 8
       ELSE IF MatchExact(s, i + 4, LitScheme) THEN i + 7
       ELSE 0
  ELSE IF MatchNoCase(s, i, LitWwwDot) THEN i + 4
  ELSE 0

\* the extras dict of detect_with_extras (nazario lines 217-222, images lines 119-124)
Extras(s) ==
  [all_caps_words |-> findall_len(s, [i \in 1..Len(s) |-> AllCapsEndAt(s, i)]),
   exclamations   |-> findall_len(s, [i \in 1..Len(s) |-> ExclamEndAt(s, i)]),
   money_symbols  |-> findall_len(s, [i \in 1..Len(s) |-> MoneyEndAt(s, i)]),
   links          |-> findall_len(s, [i \in 1..Len(s) |-> LinkEndAt(s, i)])]

\* nazario.normalize_text (lines 113-118)
nazario_normalize_text(t) ==
  IF ~Truthy(t) THEN <<>>
  ELSE str_strip(sub_ws_runs(sub_non_alnum_runs(str_lower(t))))

\* nazario.detect_with_extras (lines 207-223): one pass over the deobfuscated text
nazario_detect_with_extras(t) ==
  LET t0 == IF t = NoneVal THEN <<>> ELSE t
      t1 == deobfuscate_iocs(t0)
  IN <<summarize_counts(detect_cues(t1)), Extras(t1)>>

\* the count a phrase-count map holds for a phrase, 0 when it has none (dict.get(phrase, 0))
CountOf(phrase_counts, p) == IF p \in DOMAIN phrase_counts THEN phrase_counts[p] ELSE 0

\* the merge with the normalized count replacing the raw count instead of adding to it
MergePhraseCounts_norm_replaces(matches_raw, matches_norm) ==
  [c \in DOMAIN matches_raw \cup DOMAIN matches_norm |->
     LET a == IF c \in DOMAIN matches_raw THEN matches_raw[c] ELSE <<>>
         b == IF c \in DOMAIN matches_norm THEN matches_norm[c] ELSE <<>>
     IN [p \in DOMAIN a \cup DOMAIN b |-> IF p \in DOMAIN b THEN b[p] ELSE a[p]]]

\* images.detect_with_extras, lines 100-113: the raw counts copied, the normalized added
MergePhraseCounts(matches_raw, matches_norm) ==
  [c \in DOMAIN matches_raw \cup DOMAIN matches_norm |->
     LET a == IF c \in DOMAIN matches_raw THEN matches_raw[c] ELSE <<>>
         b == IF c \in DOMAIN matches_norm THEN matches_norm[c] ELSE <<>>
     IN [p \in DOMAIN a \cup DOMAIN b |-> CountOf(a, p) + CountOf(b, p)]]

\* images.detect_with_extras (lines 91-125): raw pass, normalized pass, merge, extras
images_detect_with_extras(t) ==
  LET t0 == IF t = NoneVal THEN <<>> ELSE t
      norm == images_normalize_text(t0)
  IN <<summarize_counts(MergePhraseCounts(detect_cues(t0), detect_cues(norm))), Extras(t0)>>

\* urlscan.normalize_text (lines 86-89)
urlscan_normalize_text(s) ==
  LET s0 == str_lower(IF Truthy(s) THEN s ELSE <<>>)
  IN str_strip(sub_ws_runs(sub_non_alnum_runs(s0)))

\* urlscan.cue_totals, lines 96-102: per category, the counts of both passes added
urlscan_merge(raw, norm) ==
  [cat \in DOMAIN raw \cup DOMAIN norm |->
     LET d1 == IF cat \in DOMAIN raw THEN raw[cat] ELSE <<>>
         d2 == IF cat \in DOMAIN norm THEN norm[cat] ELSE <<>>
     IN [phrase \in DOMAIN d1 \cup DOMAIN d2 |->
           (IF phrase \in DOMAIN d1 THEN d1[phrase] ELSE 0)
           + (IF phrase \in DOMAIN d2 THEN d2[phrase] ELSE 0)]]

\* cue_totals without the pass over the normalized text
cue_totals_raw_only(t) ==
  summarize_counts(detect_cues(IF Truthy(t) THEN t ELSE <<>>))

\* urlscan.cue_totals (lines 93-103)
cue_totals(t) ==
  LET t0   == IF Truthy(t) THEN t ELSE <<>>
      raw  == detect_cues(t0)
      norm == detect_cues(urlscan_normalize_text(t0))
  IN summarize_counts(urlscan_merge(raw, norm))

(***************************************************************************)
(* One call of a text function on a text drawn from a bounded set          *)
(***************************************************************************)
MaxTextParts == 2

P_act_now  == <<"a","c","t"," ","n","o","w",".">>
P_ACT_NOW  == <<"A","C","T"," ","N","O","W">>
P_now      == <<"n","o","w">>
P_snowman  == <<"s","n","o","w","m","a","n">>
P_hxxp     == <<"h","x","x","p",":","/","/">>
P_HXXPS    == <<"H","X","X","P","S",":","/","/">>
P_http     == <<"h","t","t","p",":","/","/">>
P_www      == <<"w","w","w">>
P_dot      == <<"[",".","]">>
P_urgent_action_required ==
  <<"u","r","g","e","n","t"," ","a","c","t","i","o","n"," ","r","e","q","u","i","r","e","d">>

TextParts == {P_act_now, P_ACT_NOW, P_now, P_snowman, P_hxxp, P_HXXPS, P_http,
              P_www, P_dot, P_urgent_action_required, <<"!","!">>, <<" ">>, <<"_">>, <<"é">>, <<"$">>}

\* the arguments explored: None, "", and the texts of up to MaxTextParts parts
CallTexts == {NoneVal} \cup TextsUpTo(TextParts, MaxTextParts)

InitCall ==
  /\ pc = "call"
  /\ text \in CallTexts
  /\ called = ""
  /\ result = <<>>
  /\ raised = ""
  /\ top_dups = <<>>
  /\ header = <<>>
  /\ path_name = <<>>
  /\ year_audit = ZeroAudit
  /\ row = EmptyMap
  /\ sig = <<>>
  /\ yr = <<>>
  /\ InitAggregates
  /\ base_row = EmptyMap
  /\ base_sig = <<>>
  /\ edits = <<>>

\* the call of fn on text returns res, or raises exc
Returns(fn, res, exc) ==
  /\ pc = "call"
  /\ pc' = "returned"
  /\ called' = fn
  /\ raised' = exc
  /\ result' = IF exc = "" THEN res ELSE <<>>
  /\ UNCHANGED <<text, top_dups, header, path_name, year_audit, row, sig, yr>>
  /\ UNCHANGED aggVars
  /\ UNCHANGED pairVars

CallCensusNormalize == Returns("nazario_census.normalize_text", normalize_text(text), "")
CallImagesNormalize == Returns("images.normalize_text", images_normalize_text(text), "")
CallDetectCues      == Returns("cues.detect_cues", detect_cues(text), detect_cues_raises(text))
CallNazarioDetect   == Returns("nazario.detect_with_extras", nazario_detect_with_extras(text), "")
CallImagesDetect    == Returns("images.detect_with_extras", images_detect_with_extras(text), "")
CallCueTotals       == Returns("urlscan.cue_totals", cue_totals(text), "")

\* the result of detect_cues is handed to summarize_counts
CallSummarizeCounts ==
  /\ pc = "returned"
  /\ called = "cues.detect_cues"
  /\ raised = ""
  /\ pc' = "summarized"
  /\ called' = "cues.summarize_counts"
  /\ result' = summarize_counts(result)
  /\ UNCHANGED <<text, raised, top_dups, header, path_name, year_audit, row, sig, yr>>
  /\ UNCHANGED aggVars
  /\ UNCHANGED pairVars

NextCall ==
  \/ CallCensusNormalize
  \/ CallImagesNormalize
  \/ CallDetectCues
  \/ CallSummarizeCounts
  \/ CallNazarioDetect
  \/ CallCueTotals
  \/ CallImagesDetect

SpecCall == InitCall /\ [][NextCall]_vars

(***************************************************************************)
(* Properties of the text functions                                        *)
(***************************************************************************)
\* runs of [a-z0-9] separated by single spaces, no space at either end
IsNormalForm(s) ==
  /\ \A i \in 1..Len(s) : s[i] \in LowerSet \cup DigitSet \cup {" "}
  /\ \A i \in 1..(Len(s) - 1) : ~(s[i] = " " /\ s[i + 1] = " ")
  /\ s # <<>> => (s[1] # " " /\ s[Len(s)] # " ")

\* C13: normalize returns a text for every input, the empty text for None and "",
\* always runs of [a-z0-9] separated by single spaces with no space at either end,
\* and normalizing the result again changes nothing ('ACT NOW!!' gives 'act now').
C13_NormalizeIdempotent ==
  (pc = "returned" /\ called \in {"nazario_census.normalize_text", "images.normalize_text"})
  => /\ raised = ""
     /\ IsNormalForm(result)
     /\ text \in {NoneVal, <<>>} => result = <<>>
     /\ called = "nazario_census.normalize_text" => normalize_text(result) = result
     /\ called = "images.normalize_text" => images_normalize_text(result) = result
     /\ text = P_ACT_NOW \o <<"!","!">> => result = <<"a","c","t"," ","n","o","w">>

C13_Witness ==
  /\ pc = "returned"
  /\ called = "images.normalize_text"
  /\ text = P_ACT_NOW \o <<"!","!">>
  /\ result = <<"a","c","t"," ","n","o","w">>

\* the phrases of a category
PhrasesOf(c) == {CUE_LEXICON[c][k] : k \in 1..Len(CUE_LEXICON[c])}

\* the phrase p stands at position i of s as a whole word, letter case ignored
WholeWordAt(s, i, p) ==
  /\ i + Len(p) - 1 <= Len(s)
  /\ CharLower(s[i]) = p[1]
  /\ (i = 1 \/ ~IsWord(s[i - 1]))
  /\ (i + Len(p) = Len(s) + 1 \/ ~IsWord(s[i + Len(p)]))
  /\ str_lower(SubSeq(s, i, i + Len(p) - 1)) = p

\* at how many positions of s the phrase p stands as a whole word
WholeWordCount(s, p) == Cardinality({i \in 1..Len(s) : WholeWordAt(s, i, p)})

\* the sum of cnt[p] over the phrases p of category c
PhraseTotal(c, cnt) ==
  LET plist == CUE_LEXICON[c]
      acc[k \in 0..Len(plist)] == IF k = 0 THEN 0 ELSE acc[k - 1] + cnt[plist[k]]
  IN acc[Len(plist)]

\* the text a call works on: "" for None
TextOrEmpty == IF text = NoneVal THEN <<>> ELSE text

\* C14: for every text, detect_cues returns a map whose keys are exactly the
\* lexicon's categories, each holding a phrase-to-count map over that category's
\* phrases with every stored count >= 1; summarize_counts of it has one total per
\* lexicon category, which is zero exactly for the categories without a match.
C14_TotalCategoryCoverage ==
  /\ (pc = "returned" /\ called = "cues.detect_cues" /\ text # NoneVal)
     => /\ raised = ""
        /\ DOMAIN result = CategorySet
        /\ \A c \in CategorySet : \A p \in DOMAIN result[c] :
             p \in PhrasesOf(c) /\ result[c][p] >= 1
  /\ called = "cues.summarize_counts"
     => /\ DOMAIN result = CategorySet
        /\ \A c \in CategorySet :
             /\ result[c] \in Nat
             /\ result[c] = 0 <=> \A p \in PhrasesOf(c) : WholeWordCount(text, p) = 0

C14_Witness ==
  /\ called = "cues.summarize_counts"
  /\ text = P_act_now
  /\ result["urgency"] = 2
  /\ \A c \in CategorySet \ {"urgency"} : result[c] = 0

\* C15: detect_cues and both detect_with_extras, called with None or with "",
\* raise nothing and return a result in which every category has total zero.
C15_AbsentInputIsNotAnError ==
  (pc = "returned" /\ text \in {NoneVal, <<>>}
   /\ called \in {"cues.detect_cues", "nazario.detect_with_extras", "images.detect_with_extras"})
  => /\ raised = ""
     /\ called = "cues.detect_cues" => \A c \in CategorySet : DOMAIN result[c] = {}
     /\ called # "cues.detect_cues" => \A c \in CategorySet : result[1][c] = 0

\* C16: the category totals of nazario.detect_with_extras are, per category, the
\* sum over its phrases of the matches in the raw text plus the matches in
\* normalize(text).
C16_DualPassInEmailScanner ==
  (pc = "returned" /\ called = "nazario.detect_with_extras")
  => \A c \in CategorySet :
       LET both == [p \in PhrasesOf(c) |->
                      WholeWordCount(TextOrEmpty, p)
                      + WholeWordCount(nazario_normalize_text(TextOrEmpty), p)]
       IN result[1][c] = PhraseTotal(c, both)

\* C17: detect_cues counts a phrase once for each position where it stands with no
\* word character (letter, digit, underscore) directly before or after it, letter
\* case ignored: 'now' 0 times in 'snowman', once in 'act now.' and in 'ACT NOW'.
C17_WholeWordMatching ==
  (pc = "returned" /\ called = "cues.detect_cues" /\ text # NoneVal)
  => /\ \A c \in CategorySet : \A p \in PhrasesOf(c) :
          CountOf(result[c], p) = WholeWordCount(text, p)
     /\ text = P_snowman => CountOf(result["urgency"], P_now) = 0
     /\ text = P_act_now => CountOf(result["urgency"], P_now) = 1
     /\ text = P_ACT_NOW => CountOf(result["urgency"], P_now) = 1

C17_Witness ==
  /\ pc = "returned"
  /\ called = "cues.detect_cues"
  /\ text = <<"_">> \o P_ACT_NOW
  /\ DOMAIN result["urgency"] = {P_now}
  /\ result["urgency"][P_now] = 1

\* the text holds the literal lit somewhere, letter case ignored
Holds(s, lit) == \E i \in 1..Len(s) : MatchNoCase(s, i, lit)

\* C20: the four extras of either detect_with_extras are the counts over the text
\* exactly as the caller supplied it; a text with 'hxxp://' but without 'http://',
\* 'https://' and 'www.' has link count 0.
C20_ExtrasOverRawText ==
  (pc = "returned"
   /\ called \in {"nazario.detect_with_extras", "images.detect_with_extras"})
  => /\ result[2] = Extras(TextOrEmpty)
     /\ ( /\ Holds(TextOrEmpty, P_hxxp)
          /\ ~Holds(TextOrEmpty, LitHttp \o LitScheme)
          /\ ~Holds(TextOrEmpty, LitHttp \o <<"s">> \o LitScheme)
          /\ ~Holds(TextOrEmpty, LitWwwDot) )
        => result[2].links = 0

\* the total the dual pass owes category c for the text t with normalized text nt:
\* over its phrases, the whole-word occurrences in t plus those in nt
DualPassTotal(c, t, nt) ==
  LET plist == CUE_LEXICON[c]
      acc[k \in 0..Len(plist)] ==
        IF k = 0 THEN 0
        ELSE acc[k - 1] + WholeWordCount(t, plist[k]) + WholeWordCount(nt, plist[k])
  IN acc[Len(plist)]

\* C22: for every text, None included, images.detect_with_extras and
\* urlscan.cue_totals return the same category totals, and each total is the sum
\* over the category's phrases of the matches in the text plus the matches in
\* normalize(text).
C22_DualPassImplementationsAgree ==
  (pc = "returned" /\ called \in {"urlscan.cue_totals", "images.detect_with_extras"}) =>
    LET nt == images_normalize_text(TextOrEmpty)
    IN /\ raised = ""
       /\ called = "urlscan.cue_totals"
            => /\ result = images_detect_with_extras(text)[1]
               /\ \A c \in CategorySet : result[c] = DualPassTotal(c, TextOrEmpty, nt)
       /\ called = "images.detect_with_extras"
            => \A c \in CategorySet : result[1][c] = DualPassTotal(c, TextOrEmpty, nt)

C22_Witness ==
  /\ pc = "returned"
  /\ called = "urlscan.cue_totals"
  /\ text = P_act_now
  /\ result["urgency"] = 4
  /\ WholeWordCount(text, P_now) = 1
  /\ \A c \in CategorySet \ {"urgency"} : result[c] = 0

\* the total of category c after one pass over the text: over its phrases, the
\* whole-word occurrences in the text
SinglePassTotal(c) ==
  PhraseTotal(c, [p \in PhrasesOf(c) |-> WholeWordCount(TextOrEmpty, p)])

P_urgent == <<"u","r","g","e","n","t">>

\* C23: for every text t with normalize(t) = t, each category total of the
\* dual-pass detector is exactly twice the single-pass total
\* summarize_counts(detect_cues(t)); phrases of one category that overlap in the
\* text ('urgent action required' and 'urgent') are each counted, in both passes.
C23_DoubleDetection ==
  ( /\ pc = "returned"
    /\ called = "images.detect_with_extras"
    /\ images_normalize_text(TextOrEmpty) = TextOrEmpty )
  => /\ \A c \in CategorySet :
          /\ result[1][c] = 2 * summarize_counts(detect_cues(TextOrEmpty))[c]
          /\ result[1][c] = 2 * SinglePassTotal(c)
     /\ text = P_urgent_action_required
          => /\ CountOf(detect_cues(text)["urgency"], P_urgent_action_required) = 1
             /\ CountOf(detect_cues(text)["urgency"], P_urgent) = 1
             /\ result[1]["urgency"] = 4

C23_Witness ==
  /\ pc = "returned"
  /\ called = "images.detect_with_extras"
  /\ text = P_urgent_action_required
  /\ images_normalize_text(text) = text
  /\ P_urgent \in PhrasesOf("urgency")
  /\ P_urgent_action_required \in PhrasesOf("urgency")
  /\ result[1]["urgency"] = 4

(***************************************************************************)
(* The four audit counters over the census loop                            *)
(***************************************************************************)
FourSum == year_audit["date_valid"] + year_audit["date_out_of_range"]
           + year_audit["fallback_file"] + year_audit["unknown"]

\* the counters of ks that the step increments by one
Bumped(ks) == {k \in ks : year_audit'[k] = year_audit[k] + 1}

C18_FourStep ==
  IF email_like_all' = email_like_all + 1
  THEN /\ Cardinality(Bumped(AuditKeys)) = 1
       /\ \A k \in AuditKeys \ Bumped(AuditKeys) : year_audit'[k] = year_audit[k]
  ELSE year_audit' = year_audit

\* C18 as stated: each email-like row increments exactly one of date_valid,
\* date_out_of_range, fallback_file and unknown, and the four always sum to the
\* number of email-like rows processed.
C18_FourExclusiveCounters == [](FourSum = email_like_all) /\ [][C18_FourStep]_vars

\* the first year-shaped token of the date field exists and is outside [2005, 2024]
FirstDateYearOutOfRange(r) ==
  LET d == safe_get(r, "date")
      at == YearTokensAt(d)
  IN /\ at # {}
     /\ LET i == CHOOSE j \in at : \A k \in at : j <= k
        IN ~_valid_year(SubSeq(d, i, i + 3))
OutOfRangePairs == {<<r, FirstDateYearOutOfRange(r)>> : r \in Rows}
OutOfRangeIdx == {i \in EmailIdx : Lookup(OutOfRangePairs, stream[i][1])}

C18_Totals ==
  /\ FourSum = email_like_all + year_audit["date_out_of_range"]
  /\ year_audit["date_out_of_range"] = Cardinality(OutOfRangeIdx)
  /\ year_audit["date_out_of_range"] <= year_audit["fallback_file"] + year_audit["unknown"]
  /\ year_audit["date_valid"] <= email_like_all - Cardinality(OutOfRangeIdx)

C18_ThreeStep ==
  IF email_like_all' = email_like_all + 1
  THEN /\ Cardinality(Bumped({"date_valid", "fallback_file", "unknown"})) = 1
       /\ "date_out_of_range" \in Bumped(AuditKeys)
            => /\ "date_valid" \notin Bumped(AuditKeys)
               /\ Cardinality(Bumped(AuditKeys)) = 2
       /\ \A k \in AuditKeys \ Bumped(AuditKeys) : year_audit'[k] = year_audit[k]
  ELSE year_audit' = year_audit

\* C18 amended: each email-like row increments exactly one of date_valid,
\* fallback_file and unknown; date_out_of_range is incremented in addition, for
\* exactly the rows whose date holds a first year outside the range, together with
\* fallback_file or unknown and never with date_valid; so the four counters sum to
\* the number of email-like rows plus date_out_of_range.
C18_ThreeExclusivePlusOutOfRange == [](C18_Totals) /\ [][C18_ThreeStep]_vars

C18_Witness ==
  /\ year_audit["date_out_of_range"] = 2
  /\ year_audit["fallback_file"] = 2
  /\ year_audit["date_valid"] = 1
  /\ year_audit["unknown"] = 0
  /\ email_like_all = 3

\* the step of one email-like row moves date_out_of_range by one exactly when the
\* first year-shaped token of the row's date lies outside the range, and then
\* leaves date_valid alone; no other step moves it
C27_OutOfRangeStep ==
  IF email_like_all' = email_like_all + 1
  THEN LET r    == stream'[Len(stream')][1]
           d    == safe_get(r, "date")
           tok  == YEAR_RX_search(d)
           oor  == year_audit'["date_out_of_range"] - year_audit["date_out_of_range"]
           okd  == year_audit'["date_valid"] - year_audit["date_valid"]
           hit  == d # <<>> /\ tok # <<>> /\ (str_int(tok) < 2005 \/ str_int(tok) > 2024)
       IN /\ oor = (IF hit THEN 1 ELSE 0)
          /\ okd \in {0, 1}
          /\ oor + okd <= 1
  ELSE year_audit'["date_out_of_range"] = year_audit["date_out_of_range"]

\* C27: no call of guess_year_with_audit increments both date_valid and
\* date_out_of_range, date_out_of_range is incremented exactly when the first
\* (19|20)dd token of a non-empty date field lies outside [2005, 2024], and after
\* any sequence of rows date_out_of_range <= fallback_file + unknown.
C27_OutOfRangeOnlyWithFallback ==
  /\ [](year_audit["date_out_of_range"]
          <= year_audit["fallback_file"] + year_audit["unknown"])
  /\ [][C27_OutOfRangeStep]_vars

C27_Witness ==
  /\ year_audit["date_out_of_range"] = 2
  /\ year_audit["fallback_file"] + year_audit["unknown"] = 2
  /\ year_audit["date_valid"] = 1
  /\ email_like_all = 3
  /\ Lookup(OutOfRangePairs, row)
  /\ yr = <<>>

\* the multiset of the (row, filename) inputs read so far: how many times each occurs
StreamBag ==
  LET idx == 1..Len(stream)
  IN [e \in {stream[i] : i \in idx} |-> Cardinality({i \in idx : stream[i] = e})]

\* what one call of the year resolver adds to the four audit counters
AuditStepPairs == {<<r, f, guess_year_with_audit(r, f, ZeroAudit).audit>> :
                     r \in Rows, f \in FileNames}
AuditStepOf(e) == (CHOOSE p \in AuditStepPairs : p[1] = e[1] /\ p[2] = e[2])[3]

\* the smallest of a non-empty set of year strings
MinYear(years) == CHOOSE y \in years : \A z \in years : y = z \/ str_lt(y, z)

\* the results of the census as functions of the multiset of inputs alone
CensusOfBag(bag) ==
  LET emails    == {e \in DOMAIN bag : EmailLikeOf(e[1])}
      sigs      == {SigOf(e[1]) : e \in emails}
      withSig(s) == {e \in emails : SigOf(e[1]) = s}
      yearsOf(s) == {YearOf(e[1], e[2]) : e \in withSig(s)} \ {<<>>}
      dated     == {s \in sigs : yearsOf(s) # {}}
      years     == {YearOf(e[1], e[2]) : e \in emails} \ {<<>>}
      first     == [s \in dated |-> MinYear(yearsOf(s))]
      n         == SumOver(bag, emails)
      u         == Cardinality(sigs)
  IN [email_like_all  |-> n,
      sig_counter     |-> [s \in sigs |-> SumOver(bag, withSig(s))],
      sig_first_year  |-> first,
      per_year_raw    |-> [y \in years |->
                             SumOver(bag, {e \in emails : YearOf(e[1], e[2]) = y})],
      per_year_unique |-> [y \in {first[s] : s \in dated} |->
                             Cardinality({s \in dated : first[s] = y})],
      unique_emails   |-> u,
      duplicates      |-> n - u,
      year_audit      |-> [k \in AuditKeys |->
                             SumOver([e \in emails |-> bag[e] * AuditStepOf(e)[k]], emails)]]

\* C28: the final email-like count, per-signature occurrence counts, earliest year
\* per signature, per-year raw and unique tallies, unique and duplicate counts and
\* the four audit counters are determined by the multiset of (row, filename)
\* inputs, so any two orderings of the same inputs end with the same values.
C28_OrderIndependence ==
  pc = "done" =>
    LET c == CensusOfBag(StreamBag)
    IN /\ email_like_all = c.email_like_all
       /\ unique_emails = c.unique_emails
       /\ duplicates = c.duplicates
       /\ year_audit = c.year_audit
       /\ DOMAIN sig_counter = DOMAIN c.sig_counter
       /\ \A s \in DOMAIN sig_counter : sig_counter[s] = c.sig_counter[s]
       /\ DOMAIN sig_first_year = DOMAIN c.sig_first_year
       /\ \A s \in DOMAIN sig_first_year : sig_first_year[s] = c.sig_first_year[s]
       /\ DOMAIN per_year_raw = DOMAIN c.per_year_raw
       /\ \A y \in DOMAIN per_year_raw : per_year_raw[y] = c.per_year_raw[y]
       /\ DOMAIN per_year_unique = DOMAIN c.per_year_unique
       /\ \A y \in DOMAIN per_year_unique : per_year_unique[y] = c.per_year_unique[y]

\* two rows of one signature were read with the later year first, then a row of
\* another signature, then the first row once more
C28_Witness ==
  /\ pc = "done"
  /\ Len(stream) = 4
  /\ EmailIdx = {1, 2, 3, 4}
  /\ StreamSig(1) = StreamSig(2)
  /\ StreamSig(3) # StreamSig(1)
  /\ stream[4] = stream[1]
  /\ StreamYear(1) # <<>>
  /\ StreamYear(2) # <<>>
  /\ str_lt(StreamYear(2), StreamYear(1))
  /\ sig_first_year[StreamSig(1)] = StreamYear(2)
  /\ StreamBag[stream[1]] = 2
  /\ duplicates = 2

(***************************************************************************)
(* The signature builder on two unrelated records                          *)
(***************************************************************************)
\* records over every combination of domain, subject and body, once with a date
\* under the usual keys, once without a date under other keys and with a recipient
PairRows ==
  {[from_domain |-> d, subject |-> s, body |-> b, date |-> dt] :
     d \in {T_acom, T_Acom, T_bcom}, s \in {T_Hi, T_ReHi}, b \in {T_hello1, T_ok},
     dt \in {D_2010, NoneVal}}
  \cup
  {[from_domain |-> d, title |-> s, body_snippet |-> b, to |-> T_acom] :
     d \in {T_acom, T_Acom, T_bcom}, s \in {T_Hi, T_ReHi}, b \in {T_hello1, T_ok}}

InitPair ==
  /\ pc = "sig_build"
  /\ InitCalls
  /\ base_row \in PairRows
  /\ row \in PairRows
  /\ path_name \in FileNames
  /\ edits = <<>>
  /\ base_sig = <<>>
  /\ sig = <<>>
  /\ yr = <<>>
  /\ year_audit = ZeroAudit
  /\ InitAggregates

NextPair == BuildBoth

SpecPair == InitPair /\ [][NextPair]_vars

\* from_domain lowercased and trimmed
TrimmedDomain(r) == str_strip(str_lower(safe_get(r, "from_domain")))

\* C19: two records whose from_domain (lowercased, trimmed), normalized subject
\* and selected body content agree have equal signatures whatever their date,
\* their file or their other fields hold; two records whose lowercased, trimmed
\* from_domain differ have different signatures even with the same subject and
\* content.
C19_SignatureDependsOnlyOn ==
  pc = "sig_edit" =>
    /\ ( /\ TrimmedDomain(base_row) = TrimmedDomain(row)
         /\ normalize_subject(first_present(base_row, LIKELY_SUBJECT_KEYS))
              = normalize_subject(first_present(row, LIKELY_SUBJECT_KEYS))
         /\ SelectedContent(base_row) = SelectedContent(row) )
       => sig = base_sig
    /\ TrimmedDomain(base_row) # TrimmedDomain(row) => sig # base_sig

C19_Witness ==
  /\ pc = "sig_edit"
  /\ DOMAIN row # DOMAIN base_row
  /\ safe_get(row, "date") # safe_get(base_row, "date")
  /\ safe_get(row, "from_domain") # safe_get(base_row, "from_domain")
  /\ first_present(row, LIKELY_SUBJECT_KEYS) # first_present(base_row, LIKELY_SUBJECT_KEYS)
  /\ sig = base_sig
  /\ sig[3] # <<>>

(***************************************************************************)
(* The column fallback of the email scanner (src/src/nazario.py) and what  *)
(* the census makes of a row whose text sits in the fallback columns       *)
(***************************************************************************)
\* the column-name sets of nazario.py (lines 33-41)
nazario_LIKELY_SUBJECT_KEYS == {"subject", "subj", "title", "headline"}
nazario_LIKELY_BODY_KEYS ==
  {"body", "text", "message", "content", "payload", "snippet",
   "description", "body_text", "email", "data", "body_snippet"}
nazario_LIKELY_HTML_KEYS ==
  {"html", "body_html", "message_html", "content_html", "sanitized_body"}

\* the columns pick_columns never takes as text (line 166)
METADATA_COLUMNS == {"id", "date", "from", "from_domain", "to", "timestamp"}

\* the column names of the explored csv files
ColumnNames == {"id", "date", "from_domain", "note", "msg", "subject", "body",
                "sanitized_body", "Body "}

\* h.strip().lower() on the explored column names
header_strip_lower(h) == IF h = "Body " THEN "body" ELSE h

\* nazario.pick_columns (lines 151-168)
pick_columns(hdr) ==
  LET lower == [i \in 1..Len(hdr) |-> header_strip_lower(hdr[i])]
      pick(keys) == SelectSeq([i \in 1..Len(hdr) |-> IF lower[i] \in keys THEN hdr[i] ELSE ""],
                              LAMBDA h : h # "")
      subj_cols == pick(nazario_LIKELY_SUBJECT_KEYS)
      text_cols == pick(nazario_LIKELY_BODY_KEYS)
      html_cols == pick(nazario_LIKELY_HTML_KEYS)
      others    == SelectSeq([i \in 1..Len(hdr) |->
                                IF lower[i] \notin METADATA_COLUMNS THEN hdr[i] ELSE ""],
                             LAMBDA h : h # "")
  IN [subj_cols |-> subj_cols,
      text_cols |-> IF text_cols = <<>> /\ html_cols = <<>> THEN others ELSE text_cols,
      html_cols |-> html_cols]

\* "\n".join(parts)
str_join_lines(parts) ==
  LET j[k \in 0..Len(parts)] ==
        IF k = 0 THEN <<>>
        ELSE IF k = 1 THEN parts[1]
        ELSE j[k - 1] \o <<"\n">> \o parts[k]
  IN j[Len(parts)]

\* nazario.build_text_from_csv_row (lines 181-204): the combined text it returns
build_text_from_csv_row(rw, text_cols, html_cols) ==
  LET vals(cols) == [i \in 1..Len(cols) |-> safe_get(rw, cols[i])]
      texts == SelectSeq(vals(text_cols), LAMBDA v : v # <<>>)
      htmls == SelectSeq(vals(html_cols), LAMBDA v : v # <<>>)
  IN str_join_lines(texts \o [i \in 1..Len(htmls) |-> html_to_text(htmls[i])])

\* bound of the explored headers
MaxCols == 2

HeadersUpTo(n) ==
  LET t[k \in 0..n] == IF k = 0 THEN {<<>>}
                       ELSE t[k - 1] \cup {Append(h, c) : h \in t[k - 1], c \in ColumnNames}
  IN t[n]

\* the headers explored: up to MaxCols distinct column names
Headers == {h \in HeadersUpTo(MaxCols) :
              h # <<>> /\ \A i, j \in 1..Len(h) : i # j => h[i] # h[j]}

\* the values a column of the explored rows may hold
ColumnTexts(c) ==
  IF c = "from_domain" THEN {T_acom}
  ELSE IF c = "date" THEN {D_2010}
  ELSE IF c = "id" THEN {<<"7">>}
  ELSE {<<>>, T_hello1, T_ok}

RowsOver(hdr) ==
  {rw \in [{hdr[i] : i \in 1..Len(hdr)} -> {T_acom, D_2010, <<"7">>, <<>>, T_hello1, T_ok}] :
     \A c \in DOMAIN rw : rw[c] \in ColumnTexts(c)}

InitCols ==
  /\ pc = "cols"
  /\ header \in Headers
  /\ row \in RowsOver(header)
  /\ text = <<>>
  /\ called = ""
  /\ result = <<>>
  /\ raised = ""
  /\ top_dups = <<>>
  /\ path_name = <<>>
  /\ year_audit = ZeroAudit
  /\ sig = <<>>
  /\ yr = <<>>
  /\ InitAggregates
  /\ base_row = EmptyMap
  /\ base_sig = <<>>
  /\ edits = <<>>

\* nazario.scan_csv, line 237: the columns are picked from the header
PickColumns ==
  /\ pc = "cols"
  /\ pc' = "picked"
  /\ called' = "nazario.pick_columns"
  /\ result' = pick_columns(header)
  /\ UNCHANGED <<text, raised, top_dups, header, path_name, year_audit, row, sig, yr>>
  /\ UNCHANGED aggVars
  /\ UNCHANGED pairVars

\* nazario.scan_csv, line 240: the text of the row is built from the picked columns;
\* base_row is the record that carries this text in the body column, with the
\* metadata of the row
BuildText ==
  /\ pc = "picked"
  /\ pc' = "sig_build"
  /\ text' = build_text_from_csv_row(row, result.text_cols, result.html_cols)
  /\ base_row' = [c \in (DOMAIN row \cap METADATA_COLUMNS) \cup {"body"} |->
                    IF c = "body"
                    THEN build_text_from_csv_row(row, result.text_cols, result.html_cols)
                    ELSE row[c]]
  /\ UNCHANGED <<called, result, raised, top_dups, header, path_name, year_audit, row, sig, yr>>
  /\ UNCHANGED aggVars
  /\ UNCHANGED <<base_sig, edits>>

NextCols ==
  \/ PickColumns
  \/ BuildText
  \/ BuildBoth

SpecCols == InitCols /\ [][NextCols]_vars

\* no column of the header has a recognized subject, body or HTML name
NoRecognizedColumn ==
  \A i \in 1..Len(header) :
    header_strip_lower(header[i]) \notin
      nazario_LIKELY_SUBJECT_KEYS \cup nazario_LIKELY_BODY_KEYS \cup nazario_LIKELY_HTML_KEYS

\* C21: a row whose text arrives only in columns outside the recognized
\* subject/body/HTML names, which the scanner's fallback takes as body text, gets
\* the same is_email_like result and the same signature as the row that carries
\* the same text in a recognized column.
C21_ColumnFallbackEquivalence ==
  (pc = "sig_edit" /\ called = "nazario.pick_columns" /\ NoRecognizedColumn) =>
    /\ is_email_like(row) = is_email_like(base_row)
    /\ sig = base_sig

(***************************************************************************)
(* The signature builder on a subject with leading reply/forward markers   *)
(***************************************************************************)
\* bound of the parts put in front of a subject
MaxPrefixParts == 2

M_Re     == <<"R","e",":"," ">>
M_FW     == <<"F","W",":">>
M_Fwd    == <<"F","w","d",":"," ">>
M_fwd_sp == <<"f","w","d"," ",":"," "," ">>
\* a marker without its colon, and a word that only begins like a marker
O_Re     == <<"R","e"," ">>
O_Ref    == <<"R","e","f",":"," ">>

MarkerForms == {M_Re, M_FW, M_Fwd, M_fwd_sp}
PrefixParts == MarkerForms \cup {O_Re, O_Ref, <<" ">>}

\* the sequences of at most n prefix parts
PrefixesUpTo(n) ==
  LET t[k \in 0..n] == IF k = 0 THEN {<<>>}
                       ELSE t[k - 1] \cup {Append(q, p) : q \in t[k - 1], p \in PrefixParts}
  IN t[n]

\* the parts from position i on, joined
ConcatFrom(parts, i) ==
  LET j[k \in i..(Len(parts) + 1)] ==
        IF k > Len(parts) THEN <<>> ELSE parts[k] \o j[k + 1]
  IN j[i]

\* the record with subject x, and the record with the parts of q in front of x
SubjectRow(x) == [subject |-> x, from_domain |-> T_acom, body |-> T_hello1]

InitMarker ==
  /\ pc = "sig_build"
  /\ InitCalls
  /\ edits \in PrefixesUpTo(MaxPrefixParts)
  /\ base_row \in {SubjectRow(T_HiThere), SubjectRow(T_Hi)}
  /\ row = SubjectRow(ConcatFrom(edits, 1) \o base_row["subject"])
  /\ path_name = <<>>
  /\ base_sig = <<>>
  /\ sig = <<>>
  /\ yr = <<>>
  /\ year_audit = ZeroAudit
  /\ InitAggregates

NextMarker == BuildBoth

SpecMarker == InitMarker /\ [][NextMarker]_vars

\* a subject lowercased, trimmed and with its whitespace runs collapsed, no marker removed
PlainSubject(s) == sub_ws_runs(str_lower(str_strip(s)))

\* the first part of the prefix that is not blank, 0 when there is none
FirstPart ==
  LET at == {i \in 1..Len(edits) : edits[i] # <<" ">>}
  IN IF at = {} THEN 0 ELSE CHOOSE i \in at : \A j \in at : i <= j

\* C24: normalize_subject removes exactly one leading re:/fw:/fwd: marker (any
\* letter case, at the very start after trimming, the colon required) and no
\* more: 'Re: X', 'FW: X', 'Fwd: X' and 'X' have one normalized subject and one
\* signature, 'Re: Re: X' has the normalized subject 're: x' and another
\* signature than 'Re: X', and 'Re X' keeps its 're'.
C24_SingleMarkerStripping ==
  pc = "sig_edit" =>
    LET x == base_row["subject"]
        k == FirstPart
    IN /\ base_sig[2] = PlainSubject(x)
       /\ IF k # 0 /\ edits[k] \in MarkerForms
          THEN /\ sig[2] = PlainSubject(ConcatFrom(edits, k + 1) \o x)
               /\ (\A i \in (k + 1)..Len(edits) : edits[i] = <<" ">>) => sig = base_sig
               /\ (\E i \in (k + 1)..Len(edits) : edits[i] # <<" ">>) => sig # base_sig
          ELSE /\ sig[2] = PlainSubject(ConcatFrom(edits, 1) \o x)
               /\ k = 0 => sig = base_sig
               /\ k # 0 => sig # base_sig
       /\ (edits = <<M_Re, M_Re>> /\ x = T_Hi)
            => sig[2] = <<"r","e",":"," ","h","i">>

C24_Witness ==
  /\ pc = "sig_edit"
  /\ safe_get(row, "subject") = <<"R","e",":"," ","R","e",":"," ","H","i">>
  /\ sig[2] = <<"r","e",":"," ","h","i">>
  /\ base_sig[2] = <<"h","i">>
  /\ build_signature(SubjectRow(M_Re \o T_Hi)) = base_sig
  /\ sig # base_sig

(***************************************************************************)
(* The census loop over a corpus chosen for the example lists              *)
(***************************************************************************)
NextExamples ==
  \/ \E f \in FileNames : OpenFile(f)
  \/ \E r \in ExampleRows : ProcessRow(r)
  \/ CloseFile
  \/ ReturnNoFiles
  \/ Finalize

SpecExamples == Init /\ [][NextExamples]_vars

\* the subject field of each explored row (computed once)
ExampleSubjectPairs == {<<r, first_present(r, LIKELY_SUBJECT_KEYS)>> : r \in ExampleRows}

\* the subject cut to at most 200 characters
Cut200(s) == IF Len(s) <= 200 THEN s ELSE [k \in 1..200 |-> s[k]]

\* the examples a signature should hold: file name and cut subject of its first
\* min(3, count) email-like rows, in stream order
FirstOccurrences(s) ==
  LET idxs == {i \in EmailIdx : StreamSig(i) = s}
      m    == Min(3, Cardinality(idxs))
      nth(k) == CHOOSE i \in idxs : Cardinality({j \in idxs : j <= i}) = k
  IN [k \in 1..m |-> <<stream[nth(k)][2],
                       Cut200(Lookup(ExampleSubjectPairs, stream[nth(k)][1]))>>]

C29_ExamplesAreFirstOccurrences ==
  /\ DOMAIN sig_examples = StreamSigs
  /\ \A s \in DOMAIN sig_examples :
       LET want == FirstOccurrences(s)
       IN /\ Len(sig_examples[s]) = Len(want)
          /\ \A k \in 1..Len(want) : sig_examples[s][k] = want[k]

\* a step keeps every example list as a prefix of the list after it
C29_ExamplesStep ==
  \A s \in DOMAIN sig_examples :
    /\ s \in DOMAIN sig_examples'
    /\ Len(sig_examples[s]) <= Len(sig_examples'[s])
    /\ \A k \in 1..Len(sig_examples[s]) : sig_examples'[s][k] = sig_examples[s][k]

\* C29: the example list of a signature holds exactly the first min(3, count)
\* email-like rows with that signature in stream order (file name plus the subject
\* cut to at most 200 characters), also for rows whose year resolves to empty, and
\* no later step removes, replaces or reorders an example once appended.
C29_ExamplesFirstAndNeverRevised ==
  [](C29_ExamplesAreFirstOccurrences) /\ [][C29_ExamplesStep]_vars

\* four rows of the long subject were read from a file without a year: three
\* examples are held, each with the subject cut to 200 characters, no year stored
C29_Witness ==
  /\ Len(stream) = 4
  /\ path_name = F_none
  /\ \E s \in DOMAIN sig_examples :
       /\ sig_counter[s] = 4
       /\ Len(sig_examples[s]) = 3
       /\ s \notin DOMAIN sig_first_year
       /\ \A k \in 1..3 : /\ sig_examples[s][k][1] = F_none
                          /\ Len(sig_examples[s][k][2]) = 200
                          /\ sig_examples[s][k][2] # T_long201
  /\ year_audit["unknown"] = 4

(***************************************************************************)
(* The signature builder on two records that share their HTML fields and   *)
(* differ in their plain-text body fields                                  *)
(***************************************************************************)
T_pOk == <<"<","p",">","o","k","<","/","p",">">>

\* the HTML-like fields of a record: the first one blank, tags only, short or long
HtmlFields ==
  {[sanitized_body |-> a, body_html |-> b] :
     a \in {T_blank, T_emptyTags, T_pOk, T_helloH}, b \in {NoneVal, T_emptyTags, T_helloH}}

\* the plain-text body fields of a record
PlainFields ==
  {[body_snippet |-> a, body |-> b] :
     a \in {NoneVal, T_HiThere}, b \in {NoneVal, T_ok, T_hello1}}

HtmlRow(h, p) ==
  [subject |-> T_Hi, from_domain |-> T_acom,
   sanitized_body |-> h.sanitized_body, body_html |-> h.body_html,
   body_snippet |-> p.body_snippet, body |-> p.body]

InitHtml ==
  /\ pc = "sig_build"
  /\ InitCalls
  /\ \E h \in HtmlFields : \E p \in PlainFields : \E q \in PlainFields :
       /\ base_row = HtmlRow(h, p)
       /\ row = HtmlRow(h, q)
  /\ edits = IF row = base_row THEN <<>> ELSE <<"plain text">>
  /\ path_name = <<>>
  /\ base_sig = <<>>
  /\ sig = <<>>
  /\ yr = <<>>
  /\ year_audit = ZeroAudit
  /\ InitAggregates

NextHtml == BuildBoth

SpecHtml == InitHtml /\ [][NextHtml]_vars

\* the first non-blank HTML-like field of the record, empty when there is none
FirstHtml == first_present(row, LIKELY_HTML_KEYS)
HtmlNorm  == normalize_text(html_to_text(FirstHtml))
PlainNorm(r) == normalize_text(first_present(r, LIKELY_BODY_KEYS))

\* C30: whenever a record has a non-blank HTML-like field, its plain-text body
\* fields do not influence the signature: the content component is built from the
\* first non-blank HTML field alone, and is the empty sentinel when that HTML
\* reduces to fewer than 5 normalized characters (tags only, say), even though a
\* plain-text body of 5 or more normalized characters is present.
C30_HtmlOverridesPlainText ==
  (pc = "sig_edit" /\ FirstHtml # <<>>) =>
    /\ sig = base_sig
    /\ Len(HtmlNorm) < 5 => sig[3] = <<>>
    /\ Len(HtmlNorm) >= 5 => sig[3] = sha1_hexdigest(HtmlNorm)

C30_Witness ==
  /\ pc = "sig_edit"
  /\ row.sanitized_body = T_emptyTags
  /\ row.body_html = NoneVal
  /\ row.body = T_hello1
  /\ base_row.body = T_ok
  /\ Len(PlainNorm(row)) >= 5
  /\ Len(PlainNorm(base_row)) < 5
  /\ HtmlNorm = <<>>
  /\ sig[3] = <<>>
  /\ sig = base_sig

====
